---------------------------- MODULE Spec2Model ----------------------------
(***************************************************************************)
(* Review moderation and rating aggregation of the reviews microservice   *)
(* (src/services/reviews/reviews.py).                                      *)
(*                                                                         *)
(* The database holds three tables: review (keyed by id), review_summary   *)
(* (keyed by product_id) and review_response (keyed by id).  Every HTTP    *)
(* request runs in its own SQLAlchemy session; a handler is modelled as    *)
(* the sequence of its database statements (SELECT, COMMIT), each of which *)
(* is atomic, and handlers of different requests interleave between        *)
(* statements.  The source sets no isolation level and takes no lock, so a *)
(* statement sees whatever has been committed when it runs.                *)
(*                                                                         *)
(* The suppliers service (src/services/suppliers/suppliers.py), the       *)
(* categories service (src/services/categories/categories.py) and the     *)
(* products service (src/services/products/products.py) are separate      *)
(* applications with their own databases and are modelled the same way,   *)
(* in variables of their own.  Prices are integers.                        *)
(*                                                                         *)
(* Numbers: a number of a JSON body (a rating, an attribute score) is a    *)
(* Python int or a Python float, and the arithmetic of the source depends  *)
(* on which: ints are added exactly, floats are added and divided in       *)
(* binary64 with rounding to nearest, ties to even.  average_rating is     *)
(* kept in integer hundredths (4.00 is 400); an attribute average of int   *)
(* scores is kept as the reduced fraction whose nearest double it is, an   *)
(* attribute average of float scores as the double itself.                 *)
(***************************************************************************)
EXTENDS Integers, Sequences, FiniteSets, TLC

VARIABLES
    reviews,      \* table review: id -> row, defined on the stored ids
    summaries,    \* table review_summary: product_id -> row
    responses,    \* table review_response: id -> row
    req,          \* per request slot: the handler's position and session
    fn_reviews,   \* aggregation alone: the approved reviews of the product
    fn_prior,     \* aggregation alone: the summary row before, <<>> or <<row>>
    fn_summary,   \* aggregation alone: the summary row now, <<>> or <<row>>
    fn_calls,     \* aggregation alone: recomputations done so far
    suppliers,    \* suppliers service, table supplier: the stored ids
    contacts,     \* suppliers service, table supplier_contact: id -> row
    contact_req,  \* suppliers service, per request slot
    categories,   \* categories service, table category: id -> row
    category_req, \* categories service, per request slot
    walk,         \* categories service: the request reading attributes
    products,     \* products service, table product: id -> row
    price_history,\* products service, table price_history, by ascending id
    price_req     \* products service, per request slot

dbVars == <<reviews, summaries, responses>>
fnVars == <<fn_reviews, fn_prior, fn_summary, fn_calls>>
reviewVars == <<dbVars, req, fnVars>>
supplierVars == <<suppliers, contacts, contact_req>>
\* The variables of the services other than reviews.
categoryVars == <<categories, category_req, walk>>
productVars == <<products, price_history, price_req>>
otherVars == <<supplierVars, categoryVars, productVars>>
vars == <<reviews, summaries, responses, req,
          fn_reviews, fn_prior, fn_summary, fn_calls, otherVars>>

---------------------------------------------------------------------------
(* Bounds and input sets *)

MaxReviews == 3
NumProducts == 2
MaxRequests == 2
MaxFnReviews == 3
MaxFnCalls == 2
MaxResponses == 2
NumSuppliers == 2
MaxContacts == 2
MaxCategories == 2
MaxPrice == 3
MaxHistory == 3

ReviewIds == 1..MaxReviews
Products == 1..NumProducts
Requests == 1..MaxRequests
ResponseIds == 1..MaxResponses
SupplierIds == 1..NumSuppliers
ContactIds == 1..MaxContacts
CategoryIds == 1..MaxCategories
Prices == 1..MaxPrice

MinRating == 1
MaxRating == 5
Ratings == MinRating..MaxRating

---------------------------------------------------------------------------
(* JSON numbers.  request.get_json() yields a Python int for a JSON number *)
(* without fraction or exponent and a Python float otherwise.              *)
(*   int:    [int |-> n]                                                   *)
(*   float:  [mantissa |-> bits, exponent |-> e], the binary64 value       *)
(*           (bits read as a natural, most significant first) * 2^e, bits  *)
(*           being the 53 bits of the significand; 0.0 has 53 zero bits    *)
(*           and exponent 0.  Floats here are non-negative and normal.     *)

\* The significand of a binary64 float has 53 bits.
Precision == 53

Integer(n) == [int |-> n]
IsInteger(x) == "int" \in DOMAIN x

Zeros(k) == [i \in 1..k |-> 0]

\* The four bits of a hexadecimal digit.
Nibble(d) == <<(d \div 8) % 2, (d \div 4) % 2, (d \div 2) % 2, d % 2>>

\* The bits of a string of hexadecimal digits.
HexBits(digits) ==
    [i \in 1..4 * Len(digits) |->
        Nibble(digits[((i - 1) \div 4) + 1])[((i - 1) % 4) + 1]]

\* The float that float.hex() prints as 0x1.<13 digits>p<p>: digits are
\* the fourteen hexadecimal digits 1, d1 .. d13.
Float(digits, p) ==
    LET bits == HexBits(digits)
    IN  [mantissa |-> SubSeq(bits, Len(bits) - Precision + 1, Len(bits)),
         exponent |-> p - (Precision - 1)]

FloatZero == [mantissa |-> Zeros(Precision), exponent |-> 0]

\* (0.1).hex() = 0x1.999999999999ap-4
Tenth == Float(<<1, 9, 9, 9, 9, 9, 9, 9, 9, 9, 9, 9, 9, 10>>, 0 - 4)
\* (0.2).hex() = 0x1.999999999999ap-3
Fifth == Float(<<1, 9, 9, 9, 9, 9, 9, 9, 9, 9, 9, 9, 9, 10>>, 0 - 3)
\* (0.3).hex() = 0x1.3333333333333p-2
ThreeTenths == Float(<<1, 3, 3, 3, 3, 3, 3, 3, 3, 3, 3, 3, 3, 3>>, 0 - 2)
\* (4.5).hex() = 0x1.2000000000000p+2
FourAndHalf == Float(<<1, 2, 0, 0, 0, 0, 0, 0, 0, 0, 0, 0, 0, 0>>, 2)

\* Attributes payloads.  The empty mapping stands for both a missing
\* "attributes" field (None) and {}: line 100 treats the two alike.
NoAttributes == <<>>
Durability(v) == [a \in {"durability"} |-> v]
Comfort(v) == [a \in {"comfort"} |-> v]
DurabilityComfort(v, w) ==
    [a \in {"durability", "comfort"} |-> IF a = "durability" THEN v ELSE w]

\* The create requests sent while requests are handled concurrently,
\* <<id, product_id, rating, attributes>>.
ConcurrentCatalogue ==
    { <<1, 1, Integer(5), Durability(Integer(4))>>,
      <<2, 1, Integer(1), NoAttributes>>,
      <<3, 1, Integer(3), Durability(Integer(2))>>,
      <<3, 2, Integer(3), NoAttributes>>,
      <<4, 2, Integer(4), NoAttributes>>,
      <<4, 3, Integer(2), NoAttributes>> }

\* The create requests sent while requests are handled one at a time.
SequentialCatalogue ==
    { <<1, 1, Integer(5), Durability(Integer(4))>>,
      <<1, 1, Integer(2), NoAttributes>>,
      <<1, 2, Integer(5), NoAttributes>>,
      <<1, 3, Integer(1), NoAttributes>>,
      <<2, 1, Integer(3), NoAttributes>>,
      <<2, 1, Integer(5), Comfort(Integer(4))>>,
      <<2, 2, Integer(1), Durability(Integer(2))>>,
      <<2, 3, Integer(4), NoAttributes>>,
      <<3, 1, Integer(1), Durability(Integer(2))>>,
      <<3, 1, Integer(4), DurabilityComfort(Integer(5), Integer(3))>>,
      <<3, 2, Integer(3), NoAttributes>>,
      <<3, 3, Integer(3), NoAttributes>>,
      <<4, 1, Integer(4), NoAttributes>>,
      <<4, 1, Integer(2), Durability(Integer(5))>>,
      <<4, 2, Integer(2), Durability(Integer(4))>>,
      <<4, 3, Integer(5), NoAttributes>> }

\* A catalogue cut to the ids and products of the bounds.
Within(catalogue) ==
    { c \in catalogue : c[1] \in ReviewIds /\ c[2] \in Products }

\* The <<rating, attributes>> of the approved reviews the aggregation is
\* run on by itself: int scores, and the float scores 0.1, 0.2 and 0.3.
AggregationCatalogue ==
    { <<Integer(5), Durability(Integer(4))>>,
      <<Integer(3), NoAttributes>>,
      <<Integer(1), Durability(Integer(2))>>,
      <<Integer(4), DurabilityComfort(Integer(5), Integer(3))>>,
      <<Integer(2), Comfort(Integer(4))>>,
      <<Integer(5), NoAttributes>>,
      <<Integer(4), Durability(Integer(4))>>,
      <<Integer(1), NoAttributes>>,
      <<Integer(2), Durability(Integer(2))>>,
      <<Integer(3), DurabilityComfort(Integer(5), Integer(3))>>,
      <<Integer(4), Durability(Tenth)>>,
      <<Integer(5), Durability(Fifth)>>,
      <<Integer(3), Durability(ThreeTenths)>> }

---------------------------------------------------------------------------
(* Conversions and arithmetic *)

\* str(n) of an int a review can hold
IntStr(n) ==
    CASE n = 1 -> "1" [] n = 2 -> "2" [] n = 3 -> "3"
      [] n = 4 -> "4" [] n = 5 -> "5"

\* repr(x) of a float: it always has a point, an exponent or a name (inf,
\* nan), so that it is the text of no int; given for the floats sent as
\* ratings.
FloatRepr(x) == CASE x = FourAndHalf -> "4.5"

\* str(review.rating), line 90
Str(rating) ==
    IF IsInteger(rating) THEN IntStr(rating.int) ELSE FloatRepr(rating)

\* int(key), line 93
IntOf(s) ==
    CASE s = "1" -> 1 [] s = "2" -> 2 [] s = "3" -> 3
      [] s = "4" -> 4 [] s = "5" -> 5

RatingKeys == {"5", "4", "3", "2", "1"}

RECURSIVE GCD(_, _)
GCD(a, b) == IF b = 0 THEN a ELSE GCD(b, a % b)

\* int / int of two small non-negative ints (den > 0): the double nearest
\* to num / den, kept as the reduced fraction it is nearest to.
Quotient(num, den) ==
    LET g == GCD(num, den) IN
    IF num = 0 THEN [num |-> 0, den |-> 1]
    ELSE [num |-> num \div g, den |-> den \div g]

\* The bits of a natural, most significant first (<<>> for 0).
RECURSIVE BitsOf(_)
BitsOf(n) == IF n = 0 THEN <<>> ELSE Append(BitsOf(n \div 2), n % 2)

\* The least of a non-empty set of positions.
First(positions) == CHOOSE i \in positions : \A j \in positions : i <= j

\* A bit string without its leading zeros.
StripZeros(bits) ==
    LET ones == { i \in 1..Len(bits) : bits[i] = 1 }
    IN  IF ones = {} THEN <<>> ELSE SubSeq(bits, First(ones), Len(bits))

RECURSIVE AddRange(_, _, _, _, _)
\* The sum of the bits at positions lo..hi of a and of b and a carry into
\* position hi, the carry out of position lo in front: the right half is
\* added first and its carry goes into the left half.
AddRange(a, b, lo, hi, carry) ==
    IF lo = hi
    THEN << (a[lo] + b[lo] + carry) \div 2, (a[lo] + b[lo] + carry) % 2 >>
    ELSE LET mid   == (lo + hi) \div 2
             right == AddRange(a, b, mid + 1, hi, carry)
         IN  IF Head(right) = 1
             THEN AddRange(a, b, lo, mid, 1) \o Tail(right)
             ELSE AddRange(a, b, lo, mid, 0) \o Tail(right)

\* The sum of two bit strings of one length and a carry: one bit longer.
AddBits(a, b, carry) ==
    IF a = <<>> THEN <<carry>> ELSE AddRange(a, b, 1, Len(a), carry)

RECURSIVE DivideRange(_, _, _, _, _)
\* Long division by a small n > 0 over the bits at positions lo..hi, rem
\* being the remainder brought down from the bits before them:
\* <<quotient bits, remainder>>; the left half is divided first and its
\* remainder goes into the right half.
DivideRange(bits, lo, hi, n, rem) ==
    IF lo = hi
    THEN << <<(2 * rem + bits[lo]) \div n>>, (2 * rem + bits[lo]) % n >>
    ELSE LET mid   == (lo + hi) \div 2
             left  == DivideRange(bits, lo, mid, n, rem)
             right == DivideRange(bits, mid + 1, hi, n, left[2])
         IN  << left[1] \o right[1], right[2] >>

\* The quotient and the remainder of a non-empty bit string by a small
\* n > 0, <<quotient bits, remainder>>.
DivideBits(bits, n) == DivideRange(bits, 1, Len(bits), n, 0)

\* The float nearest to (bits * 2^exponent, plus a positive amount below
\* the last bit when sticky), ties to even; bits has no leading zero.
Rounded(bits, exponent, sticky) ==
    LET n == Len(bits) IN
    IF n = 0 THEN FloatZero
    ELSE IF n <= Precision
    THEN [mantissa |-> bits \o Zeros(Precision - n),
          exponent |-> exponent - (Precision - n)]
    ELSE LET kept == SubSeq(bits, 1, Precision)
             half == bits[Precision + 1]
             more == sticky \/ (\E i \in (Precision + 2) .. n : bits[i] = 1)
             up   == half = 1 /\ (more \/ kept[Precision] = 1)
             e    == exponent + (n - Precision)
             next == AddBits(kept, Zeros(Precision), 1)
         IN  IF ~up THEN [mantissa |-> kept, exponent |-> e]
             ELSE IF Head(next) = 1
             THEN [mantissa |-> SubSeq(next, 1, Precision),
                   exponent |-> e + 1]
             ELSE [mantissa |-> Tail(next), exponent |-> e]

\* float(n) of a small int n >= 0
FloatOf(n) == Rounded(BitsOf(n), 0, FALSE)

\* The float an operand of a mixed operation is converted to.
AsFloat(x) == IF IsInteger(x) THEN FloatOf(x.int) ELSE x

\* float + float: the exact sum, rounded
FloatAdd(x, y) ==
    IF x = FloatZero THEN y
    ELSE IF y = FloatZero THEN x
    ELSE LET e  == IF x.exponent <= y.exponent THEN x.exponent
                   ELSE y.exponent
             a  == x.mantissa \o Zeros(x.exponent - e)
             b  == y.mantissa \o Zeros(y.exponent - e)
             n  == IF Len(a) >= Len(b) THEN Len(a) ELSE Len(b)
         IN  Rounded(StripZeros(AddBits(Zeros(n - Len(a)) \o a,
                                        Zeros(n - Len(b)) \o b, 0)),
                     e, FALSE)

\* The guard bits a float division by a count carries below the quotient.
GuardBits == 8

\* float / int for a count 0 < n < 2^(GuardBits - 2): the exact quotient,
\* rounded
FloatDivide(x, n) ==
    LET d == DivideBits(x.mantissa \o Zeros(GuardBits), n)
    IN  Rounded(StripZeros(d[1]), x.exponent - GuardBits, d[2] # 0)

\* a <= b for bit strings of one length
BitsLeq(a, b) ==
    LET differing == { i \in 1..Len(a) : a[i] # b[i] }
    IN  differing = {} \/ a[First(differing)] < b[First(differing)]

\* float <= float
FloatLeq(x, y) ==
    IF x = FloatZero THEN TRUE
    ELSE IF y = FloatZero THEN FALSE
    ELSE IF x.exponent # y.exponent THEN x.exponent < y.exponent
    ELSE BitsLeq(x.mantissa, y.mantissa)

\* x + y of two numbers: exact for two ints, in floats otherwise
NumberAdd(x, y) ==
    IF IsInteger(x) /\ IsInteger(y) THEN Integer(x.int + y.int)
    ELSE FloatAdd(AsFloat(x), AsFloat(y))

\* x / n of a number and a positive int
NumberDivide(x, n) ==
    IF IsInteger(x) THEN Quotient(x.int, n) ELSE FloatDivide(x, n)

\* x <= y of two numbers
NumberLeq(x, y) ==
    IF IsInteger(x) /\ IsInteger(y) THEN x.int <= y.int
    ELSE FloatLeq(AsFloat(x), AsFloat(y))

\* A faulty variant of Round2: the quotient is cut, not rounded.
Round2Truncating(num, den) == (100 * num) \div den

\* round(num / den, 2) in hundredths.  Python rounds the double to the
\* nearest hundredth; an exact tie needs 8 | den and is then a multiple of
\* 1/8, which a double holds exactly, and goes to the even hundredth
\* (exact for den < 40).
Round2Tie(q) == IF q % 2 = 0 THEN q ELSE q + 1
Round2(num, den) ==
    LET q == (100 * num) \div den
        r == (100 * num) % den
    IN  IF 2 * r < den THEN q
        ELSE IF 2 * r > den THEN q + 1
        ELSE Round2Tie(q)

RECURSIVE SumOver(_, _)
\* sum(f[k] for k in keys)
SumOver(f, keys) ==
    IF keys = {} THEN 0
    ELSE LET k == CHOOSE x \in keys : TRUE
         IN  f[k] + SumOver(f, keys \ {k})

---------------------------------------------------------------------------
(* update_product_summary, lines 67-121: the aggregation.  `revs` is the   *)
(* list the query of line 72 returned, in the order it returned it.        *)

\* lines 82 and 88: {"5": 0, "4": 0, "3": 0, "2": 0, "1": 0}
ZeroDistribution == [k \in RatingKeys |-> 0]

\* line 90: distribution[str(review.rating)] += 1
CountRating(distribution, review) ==
    [distribution EXCEPT ![Str(review.rating)] = @ + 1]

\* line 90 raises KeyError: str(review.rating) is none of the five keys
RaisesKeyError(revs) ==
    \E i \in 1..Len(revs) : Str(revs[i].rating) \notin RatingKeys

RECURSIVE CountRatings(_, _)
\* lines 88-90: the loop over the reviews
CountRatings(distribution, revs) ==
    IF revs = <<>> THEN distribution
    ELSE CountRatings(CountRating(distribution, Head(revs)), Tail(revs))

\* line 93: sum(int(key) * value for key, value in distribution.items())
TotalRatings(distribution) ==
    SumOver([k \in RatingKeys |-> IntOf(k) * distribution[k]], RatingKeys)

\* line 94: sum(distribution.values())
TotalReviews(distribution) == SumOver(distribution, RatingKeys)

\* lines 95 and 117: round(total_ratings / total_reviews, 2), or 0
AverageRating(distribution) ==
    IF TotalReviews(distribution) > 0
    THEN Round2(TotalRatings(distribution), TotalReviews(distribution))
    ELSE 0

\* lines 102-105: one item of one review's attributes; line 103 starts the
\* sum at the int 0 and line 104 is sum += value
AddAttribute(attributes, attr, value) ==
    IF attr \notin DOMAIN attributes
    THEN [a \in DOMAIN attributes \cup {attr} |->
            IF a = attr
            THEN [sum |-> NumberAdd(Integer(0), value), count |-> 0 + 1]
            ELSE attributes[a]]
    ELSE [attributes EXCEPT ![attr] =
            [sum |-> NumberAdd(@.sum, value), count |-> @.count + 1]]

RECURSIVE AddAttributes(_, _, _)
\* line 101: the loop over review.attributes.items()
AddAttributes(attributes, items, keys) ==
    IF keys = {} THEN attributes
    ELSE LET k == CHOOSE x \in keys : TRUE
         IN  AddAttributes(AddAttribute(attributes, k, items[k]),
                           items, keys \ {k})

\* A faulty variant of AddReviewAttributes: a review lacking an attribute
\* collected so far counts for it with the value 0.
AddReviewAttributesCountingMissing(attributes, review) ==
    LET counted == [a \in DOMAIN attributes |->
                      IF a \in DOMAIN review.attributes THEN attributes[a]
                      ELSE [attributes[a] EXCEPT !.count = @ + 1]]
    IN  AddAttributes(counted, review.attributes, DOMAIN review.attributes)

\* lines 100-105: a review with no or empty attributes is skipped
AddReviewAttributes(attributes, review) ==
    IF DOMAIN review.attributes # {}
    THEN AddAttributes(attributes, review.attributes, DOMAIN review.attributes)
    ELSE attributes

RECURSIVE CollectAttributes(_, _)
\* lines 98-105: the loop over the reviews
CollectAttributes(attributes, revs) ==
    IF revs = <<>> THEN attributes
    ELSE CollectAttributes(AddReviewAttributes(attributes, Head(revs)),
                           Tail(revs))

\* line 109: data["sum"] / data["count"] if data["count"] > 0 else 0
AttributeAverage(data) ==
    IF data.count > 0 THEN NumberDivide(data.sum, data.count)
    ELSE Quotient(0, 1)

\* lines 107-109
AttributeAverages(attributes) ==
    [a \in DOMAIN attributes |-> AttributeAverage(attributes[a])]

\* lines 80-83: the fields set when the query returned no review
EmptySummaryFields ==
    [average_rating     |-> 0,
     total_reviews      |-> 0,
     distribution       |-> ZeroDistribution,
     attribute_averages |-> <<>>]

\* lines 87-120: the fields set when the query returned reviews
ComputedSummaryFields(revs) ==
    LET distribution == CountRatings(ZeroDistribution, revs)
        attributes   == CollectAttributes(<<>>, revs)
    IN  [average_rating     |-> AverageRating(distribution),
         total_reviews      |-> TotalReviews(distribution),
         distribution       |-> distribution,
         attribute_averages |-> AttributeAverages(attributes)]

\* lines 74-121: what update_product_summary assigns to the summary object
\* (last_updated, a timestamp, is left out)
SummaryFields(revs) ==
    IF revs = <<>> THEN EmptySummaryFields ELSE ComputedSummaryFields(revs)

SummaryColumns ==
    {"average_rating", "total_reviews", "distribution", "attribute_averages"}

---------------------------------------------------------------------------
(* The tables and the request slots *)

\* A request slot.  pc is the statement the handler runs next; data is the
\* JSON body of the request (a function from the keys it carries); revs,
\* summary and helpfulness are what its session has read (summary and
\* helpfulness are <<>> for nothing and <<value>> for a loaded one); result
\* is the HTTP status returned.
IdleRequest ==
    [pc |-> "idle", op |-> "none", review_id |-> 0, product_id |-> 0,
     data |-> <<>>, revs |-> <<>>, summary |-> <<>>, helpfulness |-> <<>>,
     result |-> 0]

Done(r, status) ==
    [r EXCEPT !.pc = "done", !.revs = <<>>, !.summary = <<>>,
              !.helpfulness = <<>>, !.result = status]

\* A request slot of the categories service.  parent_id is the parent_id
\* of the body, changed tells that it differs from the loaded one (line
\* 139), and children are the subcategories the flush of a deletion has
\* read.
IdleCategoryRequest ==
    [pc |-> "idle", op |-> "none", category_id |-> 0, parent_id |-> 0,
     changed |-> FALSE, children |-> {}, result |-> 0]

\* No request of the categories service is reading attributes.  In a walk
\* loaded holds the parent_id of the rows the session has loaded, and at
\* is the row whose .parent lines 215 and 223 evaluate next (0 for none).
NoWalk == [pc |-> "idle", category_id |-> 0, at |-> 0, loaded |-> <<>>]

\* A request slot of the products service.  price is the price of the
\* body, previous_price the price the session loaded, and changed tells
\* that the two differed (lines 151 and 261).
IdlePriceRequest ==
    [pc |-> "idle", op |-> "none", product_id |-> 0, price |-> 0,
     previous_price |-> 0, changed |-> FALSE, result |-> 0]

\* A request slot of the suppliers service.  existing_primary is the
\* contact the session loaded as the primary one (0 for None), and cascade
\* the contacts the session loaded to delete them with their supplier.
IdleContactRequest ==
    [pc |-> "idle", op |-> "none", supplier_id |-> 0, contact_id |-> 0,
     is_primary |-> FALSE, assigned |-> FALSE, existing_primary |-> 0,
     cascade |-> {}, result |-> 0]

\* line 28: the default of the helpfulness column
NoHelpfulness == [likes |-> 0, dislikes |-> 0]

\* Review(...), lines 202-213, with the column default of line 28; the text
\* fields are left out
NewReview(product_id, rating, attributes) ==
    [product_id |-> product_id, rating |-> rating,
     attributes |-> attributes, status |-> "pending",
     helpfulness |-> NoHelpfulness]

\* The orders in which a query with no ORDER BY may return the rows of the
\* given ids: every listing of the ids.
Listings(ids) ==
    { f \in [1..Cardinality(ids) -> ids] :
        \A i, j \in 1..Cardinality(ids) : f[i] = f[j] => i = j }

\* The lists a query with no ORDER BY may return for the rows of the given
\* ids: the rows in any order.
RowsOf(table, ids) ==
    { [i \in 1..Cardinality(ids) |-> table[f[i]]] : f \in Listings(ids) }

\* A faulty variant of ApprovedIds: the status filter is missing.
ApprovedIdsAnyStatus(product_id) ==
    { i \in DOMAIN reviews : reviews[i].product_id = product_id }

\* A faulty variant of ApprovedIds: the product filter is missing.
ApprovedIdsAnyProduct(product_id) ==
    { i \in DOMAIN reviews : reviews[i].status = "approved" }

\* line 72: Review.query.filter_by(product_id=..., status='approved')
ApprovedIds(product_id) ==
    { i \in DOMAIN reviews :
        /\ reviews[i].product_id = product_id
        /\ reviews[i].status = "approved" }

\* line 72: the lists .all() may return
ApprovedReviews(product_id) == RowsOf(reviews, ApprovedIds(product_id))

\* The tables of the other services are empty and no request is in flight.
OtherInit ==
    /\ suppliers = {}
    /\ contacts = <<>>
    /\ contact_req = [t \in Requests |-> IdleContactRequest]
    /\ categories = <<>>
    /\ category_req = [t \in Requests |-> IdleCategoryRequest]
    /\ walk = NoWalk
    /\ products = <<>>
    /\ price_history = <<>>
    /\ price_req = [t \in Requests |-> IdlePriceRequest]

Init ==
    /\ reviews = <<>>
    /\ summaries = <<>>
    /\ responses = <<>>
    /\ OtherInit
    /\ req = [t \in Requests |-> IdleRequest]
    /\ fn_reviews = <<>>
    /\ fn_prior = <<>>
    /\ fn_summary = <<>>
    /\ fn_calls = 0

---------------------------------------------------------------------------
(* create_review, lines 185-226: the validation and the INSERT with its    *)
(* commit, then the SELECT that reads the row back for the response.       *)

\* line 193
RequiredReviewFields == {"id", "product_id", "user_id", "title", "rating"}

\* The body of a create request carrying every field the model keeps.
ReviewData(id, product_id, rating, attributes) ==
    [id |-> id, product_id |-> product_id, user_id |-> 1, title |-> 1,
     rating |-> rating, attributes |-> attributes]

\* The bodies of the create requests of a catalogue.
Bodies(catalogue) ==
    { ReviewData(c[1], c[2], c[3], c[4]) : c \in Within(catalogue) }

\* A body without one of its keys.
Without(data, key) == [k \in DOMAIN data \ {key} |-> data[k]]

\* lines 194-196: every required field is in the body
HasRequiredReviewFields(data) == RequiredReviewFields \subseteq DOMAIN data

\* line 199: 1 <= data['rating'] <= 5, a comparison of numbers: a float
\* within the limits passes as an int does
ValidRating(rating) ==
    /\ NumberLeq(Integer(MinRating), rating)
    /\ NumberLeq(rating, Integer(MaxRating))

\* A faulty variant of create_review: the row of an id that is stored is
\* replaced (a merge in place of the INSERT).
create_review_overwriting(t, data) ==
    /\ req[t].pc = "idle"
    /\ LET r == [IdleRequest EXCEPT !.op = "create", !.data = data]
       IN  IF ~HasRequiredReviewFields(data) \/ ~ValidRating(data.rating)
           THEN /\ req' = [req EXCEPT ![t] = Done(r, 400)]
                /\ UNCHANGED reviews
           ELSE /\ reviews' =
                     [i \in DOMAIN reviews \cup {data.id} |->
                        IF i = data.id
                        THEN NewReview(data.product_id, data.rating,
                                       data.attributes)
                        ELSE reviews[i]]
                /\ req' = [req EXCEPT ![t] =
                             [r EXCEPT !.pc = "refresh_review",
                                       !.review_id = data.id]]
    /\ UNCHANGED <<summaries, responses, fnVars, otherVars>>

\* lines 190-218: the validation, and the INSERT and COMMIT of line 218.
\* The column rating is an Integer one, and the default database (line 11)
\* stores in it the number it is given, a float with a fraction as that
\* float.
create_review(t, data) ==
    /\ req[t].pc = "idle"
    /\ LET r == [IdleRequest EXCEPT !.op = "create", !.data = data]
       IN  IF ~HasRequiredReviewFields(data)
           THEN \* line 196
                /\ req' = [req EXCEPT ![t] = Done(r, 400)]
                /\ UNCHANGED reviews
           ELSE IF ~ValidRating(data.rating)
           THEN \* line 200
                /\ req' = [req EXCEPT ![t] = Done(r, 400)]
                /\ UNCHANGED reviews
           ELSE IF data.id \in DOMAIN reviews
           THEN \* primary key conflict: IntegrityError, rollback, 500
                /\ req' = [req EXCEPT ![t] =
                             Done([r EXCEPT !.review_id = data.id], 500)]
                /\ UNCHANGED reviews
           ELSE \/ /\ reviews' =
                        [i \in DOMAIN reviews \cup {data.id} |->
                           IF i = data.id
                           THEN NewReview(data.product_id, data.rating,
                                          IF "attributes" \in DOMAIN data
                                          THEN data.attributes
                                          ELSE NoAttributes)
                           ELSE reviews[i]]
                   /\ req' = [req EXCEPT ![t] =
                                [r EXCEPT !.pc = "refresh_review",
                                          !.review_id = data.id]]
                \/ \* the storage fails: rollback, 500 (lines 224-226)
                   /\ req' = [req EXCEPT ![t] =
                                Done([r EXCEPT !.review_id = data.id], 500)]
                   /\ UNCHANGED reviews
    /\ UNCHANGED <<summaries, responses, fnVars, otherVars>>

\* lines 219-223: the commit has expired the object, and reading review.id
\* and review.status for the response SELECTs the row again; the service
\* deletes no review, so the row is there
create_review_refresh(t) ==
    /\ req[t].pc = "refresh_review"
    /\ req' = [req EXCEPT ![t] = Done(@, 201)]
    /\ UNCHANGED <<dbVars, fnVars, otherVars>>

---------------------------------------------------------------------------
(* approve_review, lines 228-250 *)

\* A faulty variant of approve_review_load: the status of the review is
\* not checked.
approve_review_load_unchecked(t, review_id) ==
    /\ req[t].pc = "idle"
    /\ req' = [req EXCEPT ![t] =
         LET r == [IdleRequest EXCEPT !.op = "approve",
                                      !.review_id = review_id]
         IN  IF review_id \notin DOMAIN reviews
             THEN Done(r, 404)
             ELSE [r EXCEPT !.pc = "commit_status",
                            !.product_id = reviews[review_id].product_id]]
    /\ UNCHANGED <<dbVars, fnVars, otherVars>>

\* lines 233-238: load the review, check it, set status in the session
approve_review_load(t, review_id) ==
    /\ req[t].pc = "idle"
    /\ req' = [req EXCEPT ![t] =
         LET r == [IdleRequest EXCEPT !.op = "approve",
                                      !.review_id = review_id]
         IN  IF review_id \notin DOMAIN reviews
             THEN Done(r, 404)
             ELSE IF reviews[review_id].status # "pending"
             THEN Done(r, 400)
             ELSE [r EXCEPT !.pc = "commit_status",
                            !.product_id = reviews[review_id].product_id]]
    /\ UNCHANGED <<dbVars, fnVars, otherVars>>

\* line 241: UPDATE review SET status = 'approved' WHERE id = ...; COMMIT
approve_commit_status(t) ==
    /\ req[t].pc = "commit_status"
    /\ req[t].op = "approve"
    /\ reviews' = [reviews EXCEPT ![req[t].review_id].status = "approved"]
    /\ req' = [req EXCEPT ![t].pc = "query_reviews"]
    /\ UNCHANGED <<summaries, responses, fnVars, otherVars>>

\* line 72, called from line 244: the approved reviews of the product, in
\* an order the engine chooses; the loop of lines 88-90 over them raises
\* KeyError for a rating whose text is no key of the distribution
summary_query_reviews(t) ==
    /\ req[t].pc = "query_reviews"
    /\ \E revs \in ApprovedReviews(req[t].product_id) :
          req' = [req EXCEPT ![t] =
                    IF RaisesKeyError(revs)
                    THEN \* lines 248-250: rollback, 500
                         Done(@, 500)
                    ELSE [@ EXCEPT !.pc = "get_summary", !.revs = revs]]
    /\ UNCHANGED <<dbVars, fnVars, otherVars>>

\* lines 76-79 and 112-115: ReviewSummary.query.get(product_id); when it
\* is None a new object is added to the session
summary_get(t) ==
    /\ req[t].pc = "get_summary"
    /\ req' = [req EXCEPT ![t].pc = "commit_summary",
                          ![t].summary =
                              IF req[t].product_id \in DOMAIN summaries
                              THEN <<summaries[req[t].product_id]>>
                              ELSE <<>>]
    /\ UNCHANGED <<dbVars, fnVars, otherVars>>

\* The row an UPDATE leaves: the flush writes the columns whose assigned
\* value differs from the value the session loaded, and no other.
UpdatedRow(stored, loaded, assigned) ==
    [c \in SummaryColumns |->
        IF assigned[c] # loaded[c] THEN assigned[c] ELSE stored[c]]

\* lines 80-84 and 117-121 flushed by the commit of line 245: an INSERT of
\* the added object (IntegrityError when the row exists by now: rollback
\* and 500, line 248), or an UPDATE of the loaded one
approve_commit_summary(t) ==
    /\ req[t].pc = "commit_summary"
    /\ LET p        == req[t].product_id
           assigned == SummaryFields(req[t].revs)
       IN  IF req[t].summary = <<>>
           THEN IF p \in DOMAIN summaries
                THEN /\ UNCHANGED summaries
                     /\ req' = [req EXCEPT ![t] = Done(@, 500)]
                ELSE /\ summaries' = [q \in DOMAIN summaries \cup {p} |->
                                        IF q = p THEN assigned
                                        ELSE summaries[q]]
                     /\ req' = [req EXCEPT ![t] = Done(@, 200)]
           ELSE /\ summaries' = [summaries EXCEPT ![p] =
                                   UpdatedRow(@, req[t].summary[1], assigned)]
                /\ req' = [req EXCEPT ![t] = Done(@, 200)]
    /\ UNCHANGED <<reviews, responses, fnVars, otherVars>>

---------------------------------------------------------------------------
(* reject_review, lines 252-269 *)

\* lines 257-262
reject_review_load(t, review_id) ==
    /\ req[t].pc = "idle"
    /\ req' = [req EXCEPT ![t] =
         LET r == [IdleRequest EXCEPT !.op = "reject",
                                      !.review_id = review_id]
         IN  IF review_id \notin DOMAIN reviews
             THEN Done(r, 404)
             ELSE IF reviews[review_id].status # "pending"
             THEN Done(r, 400)
             ELSE [r EXCEPT !.pc = "commit_status",
                            !.product_id = reviews[review_id].product_id]]
    /\ UNCHANGED <<dbVars, fnVars, otherVars>>

\* A faulty variant of reject_commit_status: the rejection recomputes the
\* summary as the approval does.
reject_commit_status_recomputing(t) ==
    /\ req[t].pc = "commit_status"
    /\ req[t].op = "reject"
    /\ reviews' = [reviews EXCEPT ![req[t].review_id].status = "rejected"]
    /\ summaries' =
         LET p == req[t].product_id
         IN  [q \in DOMAIN summaries \cup {p} |->
                IF q = p
                THEN SummaryFields(
                        CHOOSE revs \in
                          RowsOf(reviews, ApprovedIds(p) \ {req[t].review_id}) :
                            TRUE)
                ELSE summaries[q]]
    /\ req' = [req EXCEPT ![t] = Done(@, 200)]
    /\ UNCHANGED <<responses, fnVars, otherVars>>

\* line 265: UPDATE review SET status = 'rejected' WHERE id = ...; COMMIT
reject_commit_status(t) ==
    /\ req[t].pc = "commit_status"
    /\ req[t].op = "reject"
    /\ reviews' = [reviews EXCEPT ![req[t].review_id].status = "rejected"]
    /\ req' = [req EXCEPT ![t] = Done(@, 200)]
    /\ UNCHANGED <<summaries, responses, fnVars, otherVars>>

---------------------------------------------------------------------------
(* update_review_helpfulness, lines 305-326 *)

\* lines 313-316: the counters the body names are assigned in the dict
SetCounters(helpfulness, data) ==
    [k \in DOMAIN helpfulness |->
       IF k \in DOMAIN data THEN data[k] ELSE helpfulness[k]]

\* lines 310-316: load the review, assign into the dict its session holds
update_review_helpfulness_load(t, review_id, data) ==
    /\ req[t].pc = "idle"
    /\ req' = [req EXCEPT ![t] =
         LET r == [IdleRequest EXCEPT !.op = "helpfulness",
                                      !.review_id = review_id,
                                      !.data = data]
         IN  IF review_id \notin DOMAIN reviews
             THEN Done(r, 404)
             ELSE [r EXCEPT
                     !.pc = "commit_helpfulness",
                     !.helpfulness =
                        <<SetCounters(reviews[review_id].helpfulness, data)>>]]
    /\ UNCHANGED <<dbVars, fnVars, otherVars>>

\* A variant of FlushedHelpfulness in which the session tracks what is
\* assigned inside the dict, as a mutable JSON column would.
FlushedHelpfulnessTracked(stored, session) == session

\* What the flush of line 319 leaves in the helpfulness column.  The flush
\* writes the attributes flagged as modified.  helpfulness is a plain JSON
\* column (line 28) and lines 314 and 316 assign inside the dict that was
\* loaded, never to the attribute, so nothing is flagged and no UPDATE is
\* issued: the stored value stays.
FlushedHelpfulness(stored, session) == stored

\* line 319: COMMIT
update_review_helpfulness_commit(t) ==
    /\ req[t].pc = "commit_helpfulness"
    /\ reviews' = [reviews EXCEPT ![req[t].review_id].helpfulness =
                     FlushedHelpfulness(@, req[t].helpfulness[1])]
    /\ req' = [req EXCEPT ![t] = Done(@, 200)]
    /\ UNCHANGED <<summaries, responses, fnVars, otherVars>>

---------------------------------------------------------------------------
(* create_review_response, lines 271-303 *)

\* line 279
RequiredResponseFields == {"id", "user_id", "comment"}

\* The body of a response request carrying every required field.
ResponseData(id) == [id |-> id, user_id |-> 1, comment |-> 1]

\* A faulty variant of create_review_response_load: the review is not
\* looked up.
create_review_response_load_unchecked(t, review_id, data) ==
    /\ req[t].pc = "idle"
    /\ req' = [req EXCEPT ![t] =
         LET r == [IdleRequest EXCEPT !.op = "response",
                                      !.review_id = review_id,
                                      !.data = data]
         IN  IF ~(RequiredResponseFields \subseteq DOMAIN data)
             THEN Done(r, 400)
             ELSE [r EXCEPT !.pc = "insert_response"]]
    /\ UNCHANGED <<dbVars, fnVars, otherVars>>

\* lines 276-283: load the review, check the body
create_review_response_load(t, review_id, data) ==
    /\ req[t].pc = "idle"
    /\ req' = [req EXCEPT ![t] =
         LET r == [IdleRequest EXCEPT !.op = "response",
                                      !.review_id = review_id,
                                      !.data = data]
         IN  IF review_id \notin DOMAIN reviews
             THEN Done(r, 404)
             ELSE IF ~(RequiredResponseFields \subseteq DOMAIN data)
             THEN Done(r, 400)
             ELSE [r EXCEPT !.pc = "insert_response"]]
    /\ UNCHANGED <<dbVars, fnVars, otherVars>>

\* ReviewResponse(...), lines 285-291
NewResponse(review_id) == [review_id |-> review_id, status |-> "active"]

\* line 296: INSERT INTO review_response ...; COMMIT
create_review_response_commit(t) ==
    /\ req[t].pc = "insert_response"
    /\ IF req[t].data.id \in DOMAIN responses
       THEN \* primary key conflict: IntegrityError, rollback, 500
            /\ UNCHANGED responses
            /\ req' = [req EXCEPT ![t] = Done(@, 500)]
       ELSE /\ responses' =
                 [i \in DOMAIN responses \cup {req[t].data.id} |->
                    IF i = req[t].data.id
                    THEN NewResponse(req[t].review_id)
                    ELSE responses[i]]
            /\ req' = [req EXCEPT ![t].pc = "refresh_response"]
    /\ UNCHANGED <<reviews, summaries, fnVars, otherVars>>

\* lines 297-300: the commit has expired the object, and reading
\* response.id for the response SELECTs the row again; the service deletes
\* no response, so the row is there
create_review_response_refresh(t) ==
    /\ req[t].pc = "refresh_response"
    /\ req' = [req EXCEPT ![t] = Done(@, 201)]
    /\ UNCHANGED <<dbVars, fnVars, otherVars>>

---------------------------------------------------------------------------
(* Failure and completion *)

\* lines 224-226, 248-250, 267-269, 301-303 and 324-326: a statement
\* raises (the storage fails); the session is rolled back and 500
\* returned.  What earlier commits of the request wrote stays: a failure
\* of the SELECT that follows the commit of line 218 or 296 returns 500
\* with the row stored.
storage_failure(t) ==
    /\ req[t].pc \in {"refresh_review", "commit_status", "query_reviews",
                      "get_summary", "commit_summary", "commit_helpfulness",
                      "insert_response", "refresh_response"}
    /\ req' = [req EXCEPT ![t] = Done(@, 500)]
    /\ UNCHANGED <<dbVars, fnVars, otherVars>>

\* The response is sent and the session removed.
respond(t) ==
    /\ req[t].pc = "done"
    /\ req' = [req EXCEPT ![t] = IdleRequest]
    /\ UNCHANGED <<dbVars, fnVars, otherVars>>

---------------------------------------------------------------------------
(* Specifications *)

\* The bodies of the create requests sent when every kind of request is:
\* two reviews of one product, one of them also with the rating 4.5, and
\* bodies the validation refuses.
CreateCatalogue ==
    { ReviewData(1, 1, Integer(5), NoAttributes),
      ReviewData(2, 1, Integer(2), NoAttributes),
      ReviewData(2, 1, FourAndHalf, NoAttributes),
      ReviewData(2, 1, Integer(MinRating - 1), NoAttributes),
      ReviewData(2, 1, Integer(MaxRating + 1), NoAttributes) }
    \cup { Without(ReviewData(2, 1, Integer(4), NoAttributes), f) :
             f \in RequiredReviewFields }

\* The bodies of the helpfulness requests.
HelpfulnessCatalogue ==
    { [likes |-> 3], [dislikes |-> 2], [likes |-> 0 - 1, dislikes |-> 1] }

\* The bodies of the response requests: complete ones and one without its
\* comment.
ResponseCatalogue ==
    { ResponseData(i) : i \in ResponseIds }
    \cup { Without(ResponseData(1), "comment") }

\* The steps of a request already begun.
Step(t) ==
    \/ create_review_refresh(t)
    \/ approve_commit_status(t)
    \/ summary_query_reviews(t)
    \/ summary_get(t)
    \/ approve_commit_summary(t)
    \/ reject_commit_status(t)
    \/ storage_failure(t)
    \/ respond(t)

\* Requests handled concurrently.
Next ==
    \/ \E t \in Requests, data \in Bodies(ConcurrentCatalogue) :
          create_review(t, data)
    \/ \E t \in Requests, id \in ReviewIds : approve_review_load(t, id)
    \/ \E t \in Requests, id \in ReviewIds : reject_review_load(t, id)
    \/ \E t \in Requests : Step(t)

Spec == Init /\ [][Next]_vars

\* Requests handled one at a time: a request starts when no other is being
\* handled.
AllIdle == \A t \in Requests : req[t].pc = "idle"

SeqNext ==
    \/ /\ AllIdle
       /\ \E t \in Requests, data \in Bodies(SequentialCatalogue) :
             create_review(t, data)
    \/ /\ AllIdle
       /\ \E t \in Requests, id \in ReviewIds : approve_review_load(t, id)
    \/ /\ AllIdle
       /\ \E t \in Requests, id \in ReviewIds : reject_review_load(t, id)
    \/ \E t \in Requests : Step(t)

SeqSpec == Init /\ [][SeqNext]_vars

\* Every request of the service, handled concurrently, over a small
\* catalogue of bodies.
ServiceNext ==
    \/ \E t \in Requests, data \in CreateCatalogue : create_review(t, data)
    \/ \E t \in Requests, id \in ReviewIds : approve_review_load(t, id)
    \/ \E t \in Requests, id \in ReviewIds : reject_review_load(t, id)
    \/ \E t \in Requests, id \in ReviewIds, data \in HelpfulnessCatalogue :
          update_review_helpfulness_load(t, id, data)
    \/ \E t \in Requests, id \in ReviewIds, data \in ResponseCatalogue :
          create_review_response_load(t, id, data)
    \/ \E t \in Requests : update_review_helpfulness_commit(t)
    \/ \E t \in Requests : create_review_response_commit(t)
    \/ \E t \in Requests : create_review_response_refresh(t)
    \/ \E t \in Requests : Step(t)

ServiceSpec == Init /\ [][ServiceNext]_vars

---------------------------------------------------------------------------
(* The aggregation alone: update_product_summary on a database whose       *)
(* approved reviews of the product are fn_reviews and whose summary row is *)
(* fn_summary.                                                             *)

ApprovedInputs ==
    { [product_id |-> 1, rating |-> c[1], attributes |-> c[2],
       status |-> "approved"] : c \in AggregationCatalogue }

RECURSIVE SeqsUpTo(_, _)
SeqsUpTo(S, n) ==
    IF n = 0 THEN { <<>> }
    ELSE LET shorter == SeqsUpTo(S, n - 1)
         IN  shorter \cup
             { Append(q, x) : q \in { z \in shorter : Len(z) = n - 1 }, x \in S }

\* The summary rows found before the recomputation: none, or one an
\* earlier approval wrote.
PriorSummaries ==
    { <<>>,
      <<SummaryFields(<<[product_id |-> 1, rating |-> Integer(4),
                         attributes |-> Comfort(Integer(3)),
                         status |-> "approved"]>>)>> }

FnInit ==
    /\ reviews = <<>>
    /\ summaries = <<>>
    /\ responses = <<>>
    /\ OtherInit
    /\ req = [t \in Requests |-> IdleRequest]
    /\ fn_reviews \in SeqsUpTo(ApprovedInputs, MaxFnReviews)
    /\ fn_prior \in PriorSummaries
    /\ fn_summary = fn_prior
    /\ fn_calls = 0

Orders(q) ==
    { f \in [1..Len(q) -> 1..Len(q)] : \A i, j \in 1..Len(q) : f[i] = f[j] => i = j }

\* A faulty variant of fn_update_product_summary: with no approved review
\* it returns early and leaves an existing summary as it is.
fn_update_product_summary_returning_early(order) ==
    /\ fn_calls < MaxFnCalls
    /\ LET revs     == [i \in 1..Len(fn_reviews) |-> fn_reviews[order[i]]]
           assigned == SummaryFields(revs)
       IN  fn_summary' =
             IF fn_summary = <<>> THEN <<assigned>>
             ELSE IF revs = <<>> THEN fn_summary
             ELSE <<assigned>>
    /\ fn_calls' = fn_calls + 1
    /\ UNCHANGED <<dbVars, req, fn_reviews, fn_prior, otherVars>>

\* lines 67-121 and the flush of the commit that follows: the query of line
\* 72 returns the reviews in the order `order`
fn_update_product_summary(order) ==
    /\ fn_calls < MaxFnCalls
    /\ LET revs     == [i \in 1..Len(fn_reviews) |-> fn_reviews[order[i]]]
           assigned == SummaryFields(revs)
       IN  fn_summary' =
             IF fn_summary = <<>> THEN <<assigned>>
             ELSE <<UpdatedRow(fn_summary[1], fn_summary[1], assigned)>>
    /\ fn_calls' = fn_calls + 1
    /\ UNCHANGED <<dbVars, req, fn_reviews, fn_prior, otherVars>>

FnNext == \E order \in Orders(fn_reviews) : fn_update_product_summary(order)

FnSpec == FnInit /\ [][FnNext]_vars

---------------------------------------------------------------------------
(* The suppliers service: create_supplier, lines 108-144, delete_supplier, *)
(* lines 181-194, create_supplier_contact, lines 228-271, and              *)
(* update_supplier_contact, lines 273-313.  A handler is the sequence of   *)
(* its database statements.  The bodies sent carry every required field,   *)
(* and of a contact the supplier and is_primary are kept.  The foreign key *)
(* of line 43 is not enforced by the default database (line 11).           *)

\* The variables the suppliers service leaves alone.
outsideSuppliers == <<reviewVars, categoryVars, productVars>>

ContactDone(r, status) ==
    [r EXCEPT !.pc = "done", !.cascade = {}, !.result = status]

\* lines 122-135: the first statement is the INSERT and its commit; a
\* stored id is a primary key conflict, the transaction is rolled back and
\* 500 returned
create_supplier_commit(t, id) ==
    /\ contact_req[t].pc = "idle"
    /\ LET r == [IdleContactRequest EXCEPT !.op = "create_supplier",
                                           !.supplier_id = id]
       IN  IF id \in suppliers
           THEN /\ UNCHANGED suppliers
                /\ contact_req' = [contact_req EXCEPT ![t] = ContactDone(r, 500)]
           ELSE /\ suppliers' = suppliers \cup {id}
                /\ contact_req' = [contact_req EXCEPT ![t] =
                                     [r EXCEPT !.pc = "refresh"]]
    /\ UNCHANGED <<contacts, outsideSuppliers>>

\* lines 137-143: supplier.id is read for the response; the commit has
\* expired the object, so the row is selected again, and when it is no
\* longer stored the read raises and 500 is returned
create_supplier_refresh(t) ==
    /\ contact_req[t].pc = "refresh"
    /\ contact_req[t].op = "create_supplier"
    /\ contact_req' = [contact_req EXCEPT ![t] =
          IF contact_req[t].supplier_id \in suppliers
          THEN ContactDone(@, 201)
          ELSE ContactDone(@, 500)]
    /\ UNCHANGED <<suppliers, contacts, outsideSuppliers>>

\* line 186: Supplier.query.get_or_404(supplier_id)
delete_supplier_load(t, supplier_id) ==
    /\ contact_req[t].pc = "idle"
    /\ LET r == [IdleContactRequest EXCEPT !.op = "delete_supplier",
                                           !.supplier_id = supplier_id]
       IN  contact_req' = [contact_req EXCEPT ![t] =
              IF supplier_id \notin suppliers
              THEN ContactDone(r, 404)
              ELSE [r EXCEPT !.pc = "cascade"]]
    /\ UNCHANGED <<suppliers, contacts, outsideSuppliers>>

\* line 34: the stored contacts of a supplier
ContactsOf(supplier_id) ==
    { i \in DOMAIN contacts : contacts[i].supplier_id = supplier_id }

\* line 189: db.session.delete(supplier) loads the contacts of the supplier
\* to delete them with it (the cascade of line 34)
delete_supplier_cascade(t) ==
    /\ contact_req[t].pc = "cascade"
    /\ contact_req' = [contact_req EXCEPT
                         ![t].pc = "commit",
                         ![t].cascade = ContactsOf(contact_req[t].supplier_id)]
    /\ UNCHANGED <<suppliers, contacts, outsideSuppliers>>

\* The contacts left when the given ones are deleted.
ContactsWithout(ids) ==
    [i \in DOMAIN contacts \ ids |-> contacts[i]]

\* lines 190-191: the commit flushes the DELETE of the contacts loaded at
\* line 189 and of the supplier; a contact stored since then stays
delete_supplier_commit(t) ==
    /\ contact_req[t].pc = "commit"
    /\ contact_req[t].op = "delete_supplier"
    /\ suppliers' = suppliers \ {contact_req[t].supplier_id}
    /\ contacts' = ContactsWithout(contact_req[t].cascade)
    /\ contact_req' = [contact_req EXCEPT ![t] = ContactDone(@, 200)]
    /\ UNCHANGED outsideSuppliers

\* The stored primary contacts of a supplier.
PrimaryContacts(supplier_id) ==
    { i \in DOMAIN contacts :
        /\ contacts[i].supplier_id = supplier_id
        /\ contacts[i].is_primary }

\* lines 255-257 and 301-303: filter_by(supplier_id=..., is_primary=True)
\* .first(), a query without ORDER BY: any one of the rows that match, 0
\* for None
FirstPrimary(supplier_id) ==
    IF PrimaryContacts(supplier_id) = {} THEN {0}
    ELSE PrimaryContacts(supplier_id)

\* lines 233-252: the supplier is looked up and the contact built
create_supplier_contact_load(t, supplier_id, id, is_primary) ==
    /\ contact_req[t].pc = "idle"
    /\ LET r == [IdleContactRequest EXCEPT !.op = "create_contact",
                                           !.supplier_id = supplier_id,
                                           !.contact_id = id,
                                           !.is_primary = is_primary]
       IN  contact_req' = [contact_req EXCEPT ![t] =
              IF supplier_id \notin suppliers
              THEN ContactDone(r, 404)
              ELSE IF is_primary
              THEN [r EXCEPT !.pc = "select_primary"]
              ELSE [r EXCEPT !.pc = "commit"]]
    /\ UNCHANGED <<suppliers, contacts, outsideSuppliers>>

\* lines 254-259: the primary contact of the supplier is loaded and
\* unmarked in the session
create_supplier_contact_select_primary(t) ==
    /\ contact_req[t].pc = "select_primary"
    /\ contact_req[t].op = "create_contact"
    /\ \E e \in FirstPrimary(contact_req[t].supplier_id) :
          contact_req' = [contact_req EXCEPT ![t].pc = "commit",
                                             ![t].existing_primary = e]
    /\ UNCHANGED <<suppliers, contacts, outsideSuppliers>>

\* The table after the UPDATE that unmarks the contact the session loaded
\* as primary.
Unmarked(table, existing_primary) ==
    [i \in DOMAIN table |->
       IF i = existing_primary
       THEN [table[i] EXCEPT !.is_primary = FALSE]
       ELSE table[i]]

\* The UPDATE of a row that is no longer stored matches no row and the
\* flush fails.
StaleRow(id) == id # 0 /\ id \notin DOMAIN contacts

\* lines 261-264: the commit flushes the UPDATE of the unmarked contact and
\* the INSERT of the new one; a stored id is a primary key conflict, the
\* transaction is rolled back and 500 returned
create_supplier_contact_commit(t) ==
    /\ contact_req[t].pc = "commit"
    /\ contact_req[t].op = "create_contact"
    /\ LET r == contact_req[t]
       IN  IF r.contact_id \in DOMAIN contacts \/ StaleRow(r.existing_primary)
           THEN /\ UNCHANGED contacts
                /\ contact_req' = [contact_req EXCEPT ![t] = ContactDone(r, 500)]
           ELSE /\ contacts' =
                     [i \in DOMAIN contacts \cup {r.contact_id} |->
                        IF i = r.contact_id
                        THEN [supplier_id |-> r.supplier_id,
                              is_primary |-> r.is_primary]
                        ELSE Unmarked(contacts, r.existing_primary)[i]]
                /\ contact_req' = [contact_req EXCEPT ![t].pc = "refresh"]
    /\ UNCHANGED <<suppliers, outsideSuppliers>>

\* lines 265-271: contact.id is read for the response; the commit has
\* expired the object, so the row is selected again, and when it is no
\* longer stored the read raises and 500 is returned
create_supplier_contact_refresh(t) ==
    /\ contact_req[t].pc = "refresh"
    /\ contact_req[t].op = "create_contact"
    /\ contact_req' = [contact_req EXCEPT ![t] =
          IF contact_req[t].contact_id \in DOMAIN contacts
          THEN ContactDone(@, 201)
          ELSE ContactDone(@, 500)]
    /\ UNCHANGED <<suppliers, contacts, outsideSuppliers>>

\* line 278: Supplier.query.get_or_404(supplier_id)
update_supplier_contact_load(t, supplier_id, contact_id, is_primary) ==
    /\ contact_req[t].pc = "idle"
    /\ LET r == [IdleContactRequest EXCEPT !.op = "update_contact",
                                           !.supplier_id = supplier_id,
                                           !.contact_id = contact_id,
                                           !.is_primary = is_primary]
       IN  contact_req' = [contact_req EXCEPT ![t] =
              IF supplier_id \notin suppliers
              THEN ContactDone(r, 404)
              ELSE [r EXCEPT !.pc = "select_contact"]]
    /\ UNCHANGED <<suppliers, contacts, outsideSuppliers>>

\* lines 279-298: the contact is looked up; it must belong to the
\* supplier; the body changes is_primary when its value differs from the
\* loaded one
update_supplier_contact_select_contact(t) ==
    /\ contact_req[t].pc = "select_contact"
    /\ LET r == contact_req[t]
       IN  contact_req' = [contact_req EXCEPT ![t] =
              IF r.contact_id \notin DOMAIN contacts
              THEN ContactDone(r, 404)
              ELSE IF contacts[r.contact_id].supplier_id # r.supplier_id
              THEN ContactDone(r, 404)
              ELSE IF r.is_primary = contacts[r.contact_id].is_primary
              THEN [r EXCEPT !.pc = "commit"]
              ELSE IF r.is_primary
              THEN [r EXCEPT !.pc = "select_primary", !.assigned = TRUE]
              ELSE [r EXCEPT !.pc = "commit", !.assigned = TRUE]]
    /\ UNCHANGED <<suppliers, contacts, outsideSuppliers>>

\* lines 300-306: the primary contact of the supplier is loaded and
\* unmarked in the session.  When the query returns the contact of the
\* request itself, the session keeps the row it loaded before and the
\* assignment of line 306 is the one flushed.
update_supplier_contact_select_primary(t) ==
    /\ contact_req[t].pc = "select_primary"
    /\ contact_req[t].op = "update_contact"
    /\ \E e \in FirstPrimary(contact_req[t].supplier_id) :
          contact_req' = [contact_req EXCEPT ![t].pc = "commit",
                                             ![t].existing_primary = e]
    /\ UNCHANGED <<suppliers, contacts, outsideSuppliers>>

\* lines 308-313: the commit flushes the UPDATE of the unmarked contact and
\* the UPDATE of the contact whose is_primary was assigned; when one of the
\* rows is no longer stored the transaction is rolled back and 500 returned
update_supplier_contact_commit(t) ==
    /\ contact_req[t].pc = "commit"
    /\ contact_req[t].op = "update_contact"
    /\ LET r == contact_req[t]
       IN  IF \/ r.assigned /\ StaleRow(r.contact_id)
              \/ StaleRow(r.existing_primary)
           THEN /\ UNCHANGED contacts
                /\ contact_req' = [contact_req EXCEPT ![t] = ContactDone(r, 500)]
           ELSE /\ contacts' =
                     [i \in DOMAIN contacts |->
                        IF i = r.contact_id /\ r.assigned
                        THEN [contacts[i] EXCEPT !.is_primary = r.is_primary]
                        ELSE Unmarked(contacts, r.existing_primary)[i]]
                /\ contact_req' = [contact_req EXCEPT ![t] = ContactDone(r, 200)]
    /\ UNCHANGED <<suppliers, outsideSuppliers>>

\* The response is sent and the session removed.
contact_respond(t) ==
    /\ contact_req[t].pc = "done"
    /\ contact_req' = [contact_req EXCEPT ![t] = IdleContactRequest]
    /\ UNCHANGED <<suppliers, contacts, outsideSuppliers>>

\* The steps of a request of the suppliers service after its first
\* statement.
ContactStep(t) ==
    \/ create_supplier_refresh(t)
    \/ delete_supplier_cascade(t)
    \/ delete_supplier_commit(t)
    \/ create_supplier_contact_select_primary(t)
    \/ create_supplier_contact_commit(t)
    \/ create_supplier_contact_refresh(t)
    \/ update_supplier_contact_select_contact(t)
    \/ update_supplier_contact_select_primary(t)
    \/ update_supplier_contact_commit(t)
    \/ contact_respond(t)

\* The requests of the suppliers service, handled concurrently.
SupplierNext ==
    \/ \E t \in Requests, id \in SupplierIds : create_supplier_commit(t, id)
    \/ \E t \in Requests, s \in SupplierIds : delete_supplier_load(t, s)
    \/ \E t \in Requests, s \in SupplierIds, id \in ContactIds,
          is_primary \in BOOLEAN :
          create_supplier_contact_load(t, s, id, is_primary)
    \/ \E t \in Requests, s \in SupplierIds, id \in ContactIds,
          is_primary \in BOOLEAN :
          update_supplier_contact_load(t, s, id, is_primary)
    \/ \E t \in Requests : ContactStep(t)

SupplierSpec == Init /\ [][SupplierNext]_vars

\* The requests of the suppliers service, handled one at a time.
SeqSupplierNext ==
    \/ /\ \A u \in Requests : contact_req[u].pc = "idle"
       /\ \/ \E t \in Requests, id \in SupplierIds :
                create_supplier_commit(t, id)
          \/ \E t \in Requests, s \in SupplierIds : delete_supplier_load(t, s)
          \/ \E t \in Requests, s \in SupplierIds, id \in ContactIds,
                is_primary \in BOOLEAN :
                \/ create_supplier_contact_load(t, s, id, is_primary)
                \/ update_supplier_contact_load(t, s, id, is_primary)
    \/ \E t \in Requests : ContactStep(t)

SeqSupplierSpec == Init /\ [][SeqSupplierNext]_vars

---------------------------------------------------------------------------
(* The categories service: create_category, lines 76-120, update_category, *)
(* lines 122-162, delete_category, lines 164-181, and                      *)
(* get_category_attributes, lines 204-225.  A handler is the sequence of   *)
(* its database statements.  Of a category the parent_id is kept (0 for    *)
(* None); level and the attribute values do not enter the walk over the    *)
(* ancestors and are left out.  The bodies sent carry every required       *)
(* field, a url_slug of their own and a parent_id.  The foreign key of     *)
(* line 23 is not enforced by the default database (line 10).              *)

\* The variables the categories service leaves alone.
outsideCategories == <<reviewVars, supplierVars, productVars>>

CategoryDone(r, status) ==
    [r EXCEPT !.pc = "done", !.children = {}, !.result = status]

\* The table after the INSERT of a category.
WithCategory(id, parent_id) ==
    [i \in DOMAIN categories \cup {id} |->
       IF i = id THEN [parent_id |-> parent_id] ELSE categories[i]]

\* lines 82-113 for a body whose parent_id is None: the first statement
\* is the INSERT and its commit; a stored id is a primary key conflict,
\* the transaction is rolled back and 500 returned
create_category_without_parent(t, id) ==
    /\ category_req[t].pc = "idle"
    /\ LET r == [IdleCategoryRequest EXCEPT !.op = "create_category",
                                            !.category_id = id]
       IN  IF id \in DOMAIN categories
           THEN /\ UNCHANGED categories
                /\ category_req' =
                     [category_req EXCEPT ![t] = CategoryDone(r, 500)]
           ELSE /\ categories' = WithCategory(id, 0)
                /\ category_req' =
                     [category_req EXCEPT ![t] = [r EXCEPT !.pc = "refresh"]]
    /\ UNCHANGED <<walk, outsideCategories>>

\* lines 89-95: the parent named is looked up and must be stored (404)
create_category_load(t, id, parent_id) ==
    /\ category_req[t].pc = "idle"
    /\ parent_id # 0
    /\ LET r == [IdleCategoryRequest EXCEPT !.op = "create_category",
                                            !.category_id = id,
                                            !.parent_id = parent_id]
       IN  category_req' = [category_req EXCEPT ![t] =
              IF parent_id \notin DOMAIN categories
              THEN CategoryDone(r, 404)
              ELSE [r EXCEPT !.pc = "commit"]]
    /\ UNCHANGED <<categories, walk, outsideCategories>>

\* lines 110-113: the INSERT and its commit; a stored id is a primary key
\* conflict, the transaction is rolled back and 500 returned
create_category_commit(t) ==
    /\ category_req[t].pc = "commit"
    /\ category_req[t].op = "create_category"
    /\ LET r == category_req[t]
       IN  IF r.category_id \in DOMAIN categories
           THEN /\ UNCHANGED categories
                /\ category_req' =
                     [category_req EXCEPT ![t] = CategoryDone(r, 500)]
           ELSE /\ categories' = WithCategory(r.category_id, r.parent_id)
                /\ category_req' = [category_req EXCEPT ![t].pc = "refresh"]
    /\ UNCHANGED <<walk, outsideCategories>>

\* lines 114-120: category.id is read for the response; the commit has
\* expired the object, so the row is selected again, and when it is no
\* longer stored the read raises and 500 is returned
create_category_refresh(t) ==
    /\ category_req[t].pc = "refresh"
    /\ category_req' = [category_req EXCEPT ![t] =
          IF category_req[t].category_id \in DOMAIN categories
          THEN CategoryDone(@, 201)
          ELSE CategoryDone(@, 500)]
    /\ UNCHANGED <<categories, walk, outsideCategories>>

\* lines 129-147: the category is looked up (404).  When the body names
\* another parent than the loaded one, that parent is looked up next,
\* unless it is None or the category itself, which the session holds
\* already; nothing else is checked before parent_id is assigned.
update_category_load(t, id, parent_id) ==
    /\ category_req[t].pc = "idle"
    /\ LET r == [IdleCategoryRequest EXCEPT !.op = "update_category",
                                            !.category_id = id,
                                            !.parent_id = parent_id]
       IN  category_req' = [category_req EXCEPT ![t] =
              IF id \notin DOMAIN categories
              THEN CategoryDone(r, 404)
              ELSE IF parent_id = categories[id].parent_id
              THEN [r EXCEPT !.pc = "commit"]
              ELSE IF parent_id = 0 \/ parent_id = id
              THEN [r EXCEPT !.pc = "commit", !.changed = TRUE]
              ELSE [r EXCEPT !.pc = "select_parent", !.changed = TRUE]]
    /\ UNCHANGED <<categories, walk, outsideCategories>>

\* lines 141-143: the parent named must be stored (404)
update_category_select_parent(t) ==
    /\ category_req[t].pc = "select_parent"
    /\ category_req' = [category_req EXCEPT ![t] =
          IF category_req[t].parent_id \notin DOMAIN categories
          THEN CategoryDone(@, 404)
          ELSE [@ EXCEPT !.pc = "commit"]]
    /\ UNCHANGED <<categories, walk, outsideCategories>>

\* lines 157-162: the commit flushes the UPDATE of parent_id when the
\* value assigned differs from the loaded one; when the row is no longer
\* stored the UPDATE matches no row, the transaction is rolled back and
\* 500 returned
update_category_commit(t) ==
    /\ category_req[t].pc = "commit"
    /\ category_req[t].op = "update_category"
    /\ LET r == category_req[t]
       IN  IF ~r.changed
           THEN /\ UNCHANGED categories
                /\ category_req' =
                     [category_req EXCEPT ![t] = CategoryDone(r, 200)]
           ELSE IF r.category_id \notin DOMAIN categories
           THEN /\ UNCHANGED categories
                /\ category_req' =
                     [category_req EXCEPT ![t] = CategoryDone(r, 500)]
           ELSE /\ categories' =
                     [categories EXCEPT ![r.category_id].parent_id =
                                           r.parent_id]
                /\ category_req' =
                     [category_req EXCEPT ![t] = CategoryDone(r, 200)]
    /\ UNCHANGED <<walk, outsideCategories>>

\* line 169: Category.query.get_or_404(category_id)
delete_category_load(t, id) ==
    /\ category_req[t].pc = "idle"
    /\ LET r == [IdleCategoryRequest EXCEPT !.op = "delete_category",
                                            !.category_id = id]
       IN  category_req' = [category_req EXCEPT ![t] =
              IF id \notin DOMAIN categories
              THEN CategoryDone(r, 404)
              ELSE [r EXCEPT !.pc = "count"]]
    /\ UNCHANGED <<categories, walk, outsideCategories>>

\* line 31: the stored categories whose parent_id is the given id
Subcategories(id) ==
    { j \in DOMAIN categories : categories[j].parent_id = id }

\* lines 172-173: a category with subcategories is not deleted (400)
delete_category_count(t) ==
    /\ category_req[t].pc = "count"
    /\ category_req' = [category_req EXCEPT ![t] =
          IF Subcategories(category_req[t].category_id) # {}
          THEN CategoryDone(@, 400)
          ELSE [@ EXCEPT !.pc = "flush"]]
    /\ UNCHANGED <<categories, walk, outsideCategories>>

\* lines 176-177: the relationship of line 31 has no delete cascade, so
\* the flush of the deletion first reads the subcategories stored by now,
\* to set their parent_id to None
delete_category_flush(t) ==
    /\ category_req[t].pc = "flush"
    /\ category_req' = [category_req EXCEPT
                          ![t].pc = "commit",
                          ![t].children =
                             Subcategories(category_req[t].category_id)
                               \ {category_req[t].category_id}]
    /\ UNCHANGED <<categories, walk, outsideCategories>>

\* The table after the writes of the flush of a deletion: the
\* subcategories read have their parent_id set to None, each UPDATE by
\* primary key, and the row is deleted.
WithoutCategory(id, children) ==
    [i \in DOMAIN categories \ {id} |->
       IF i \in children
       THEN [categories[i] EXCEPT !.parent_id = 0]
       ELSE categories[i]]

\* lines 177-181: the writes of the flush and the COMMIT; when a
\* subcategory read is no longer stored its UPDATE matches no row, the
\* transaction is rolled back and 500 returned
delete_category_commit(t) ==
    /\ category_req[t].pc = "commit"
    /\ category_req[t].op = "delete_category"
    /\ LET r == category_req[t]
       IN  IF r.children \subseteq DOMAIN categories
           THEN /\ categories' = WithoutCategory(r.category_id, r.children)
                /\ category_req' =
                     [category_req EXCEPT ![t] = CategoryDone(r, 200)]
           ELSE /\ UNCHANGED categories
                /\ category_req' =
                     [category_req EXCEPT ![t] = CategoryDone(r, 500)]
    /\ UNCHANGED <<walk, outsideCategories>>

\* The response is sent and the session removed.
category_respond(t) ==
    /\ category_req[t].pc = "done"
    /\ category_req' = [category_req EXCEPT ![t] = IdleCategoryRequest]
    /\ UNCHANGED <<categories, walk, outsideCategories>>

\* lines 209-215: the category is loaded (404); with a parent_id the walk
\* begins at category.parent, without one the attributes are returned at
\* once
get_category_attributes_begin(category_id) ==
    /\ walk.pc = "idle"
    /\ walk' =
         IF category_id \notin DOMAIN categories
         THEN [NoWalk EXCEPT !.pc = "done", !.category_id = category_id]
         ELSE LET loaded == [i \in {category_id} |->
                               categories[i].parent_id]
              IN  IF loaded[category_id] # 0
                  THEN [pc |-> "walking", category_id |-> category_id,
                        at |-> category_id, loaded |-> loaded]
                  ELSE [pc |-> "done", category_id |-> category_id,
                        at |-> 0, loaded |-> loaded]
    /\ UNCHANGED <<categories, category_req, outsideCategories>>

\* The rows of the session after the evaluation of .parent of the row
\* walk.at: a row the session holds is not read again, a stored row is
\* loaded, and a parent that is not stored gives None.
LoadedAfter ==
    LET p == walk.loaded[walk.at]
    IN  IF p \in DOMAIN walk.loaded \/ p \notin DOMAIN categories
        THEN walk.loaded
        ELSE [i \in DOMAIN walk.loaded \cup {p} |->
                IF i = p THEN categories[p].parent_id ELSE walk.loaded[i]]

\* lines 215-223, one evaluation of .parent (line 215, then line 223 on
\* each pass of the while loop): the loop goes on from the parent while
\* the parent is an object with a parent_id
get_category_attributes_step ==
    /\ walk.pc = "walking"
    /\ LET p == walk.loaded[walk.at]
       IN  walk' =
             IF p \in DOMAIN LoadedAfter /\ LoadedAfter[p] # 0
             THEN [walk EXCEPT !.at = p, !.loaded = LoadedAfter]
             ELSE [walk EXCEPT !.pc = "done", !.at = 0,
                               !.loaded = LoadedAfter]
    /\ UNCHANGED <<categories, category_req, outsideCategories>>

\* line 225: the attributes are returned
get_category_attributes_return ==
    /\ walk.pc = "done"
    /\ walk' = NoWalk
    /\ UNCHANGED <<categories, category_req, outsideCategories>>

\* The steps of a request of the categories service after its first
\* statement.
CategoryStep(t) ==
    \/ create_category_commit(t)
    \/ create_category_refresh(t)
    \/ update_category_select_parent(t)
    \/ update_category_commit(t)
    \/ delete_category_count(t)
    \/ delete_category_flush(t)
    \/ delete_category_commit(t)
    \/ category_respond(t)

\* The requests of the categories service, handled concurrently.
CategoryNext ==
    \/ \E t \in Requests, id \in CategoryIds :
          create_category_without_parent(t, id)
    \/ \E t \in Requests, id \in CategoryIds, parent_id \in CategoryIds :
          create_category_load(t, id, parent_id)
    \/ \E t \in Requests, id \in CategoryIds,
          parent_id \in {0} \cup CategoryIds :
          update_category_load(t, id, parent_id)
    \/ \E t \in Requests, id \in CategoryIds : delete_category_load(t, id)
    \/ \E t \in Requests : CategoryStep(t)
    \/ \E id \in CategoryIds : get_category_attributes_begin(id)
    \/ get_category_attributes_step
    \/ get_category_attributes_return

CategorySpec == Init /\ [][CategoryNext]_vars

---------------------------------------------------------------------------
(* The products service: create_product, lines 90-136, update_product,     *)
(* lines 138-181, delete_product, lines 183-196, update_price, lines       *)
(* 250-281.  A handler is the sequence of its database statements.  Of a   *)
(* product the price is kept; the bodies sent carry every required field   *)
(* and a price.  The entries of the price history have no relationship to  *)
(* the product and the foreign key of line 40 is not enforced by the       *)
(* default database (line 11): they outlive the product.                   *)

\* The variables the products service leaves alone.
outsideProducts == <<reviewVars, supplierVars, categoryVars>>

PriceDone(r, status) == [r EXCEPT !.pc = "done", !.result = status]

\* PriceHistory(...), lines 120-125, 153-158 and 263-268
NewPriceHistory(product_id, previous_price, new_price) ==
    [product_id |-> product_id, previous_price |-> previous_price,
     new_price |-> new_price]

\* lines 103-129: the first statement is the commit that inserts the
\* product and the first entry of its history; a stored id is a primary
\* key conflict, the transaction is rolled back and 500 returned
create_product_commit(t, id, price) ==
    /\ price_req[t].pc = "idle"
    /\ Len(price_history) < MaxHistory
    /\ LET r == [IdlePriceRequest EXCEPT !.op = "create_product",
                                         !.product_id = id,
                                         !.price = price]
       IN  IF id \in DOMAIN products
           THEN /\ UNCHANGED <<products, price_history>>
                /\ price_req' = [price_req EXCEPT ![t] = PriceDone(r, 500)]
           ELSE /\ products' = [i \in DOMAIN products \cup {id} |->
                                  IF i = id THEN [price |-> price]
                                  ELSE products[i]]
                /\ price_history' =
                      Append(price_history, NewPriceHistory(id, 0, price))
                /\ price_req' = [price_req EXCEPT ![t] =
                                   [r EXCEPT !.pc = "refresh"]]
    /\ UNCHANGED outsideProducts

\* The response reads product.id; the commit has expired the object, so
\* the row is selected again, and when it is no longer stored the read
\* raises and 500 is returned.
Refreshed(r, status) ==
    IF r.product_id \in DOMAIN products
    THEN PriceDone(r, status)
    ELSE PriceDone(r, 500)

\* lines 130-136
create_product_refresh(t) ==
    /\ price_req[t].pc = "refresh"
    /\ price_req[t].op = "create_product"
    /\ price_req' = [price_req EXCEPT ![t] = Refreshed(@, 201)]
    /\ UNCHANGED <<products, price_history, outsideProducts>>

\* lines 143-160 and 255-270: the product is loaded (404 when it is not
\* stored); when the price of the body differs from the loaded one, an
\* entry from the loaded price to the new one is added to the session and
\* the price assigned
LoadedPrice(op, product_id, price) ==
    LET r == [IdlePriceRequest EXCEPT !.op = op,
                                      !.product_id = product_id,
                                      !.price = price]
    IN  IF product_id \notin DOMAIN products
        THEN PriceDone(r, 404)
        ELSE [r EXCEPT !.pc = "commit",
                       !.previous_price = products[product_id].price,
                       !.changed = (price # products[product_id].price)]

\* update_product, lines 143-160
update_product_load(t, product_id, price) ==
    /\ price_req[t].pc = "idle"
    /\ price_req' = [price_req EXCEPT ![t] =
                       LoadedPrice("update_product", product_id, price)]
    /\ UNCHANGED <<products, price_history, outsideProducts>>

\* update_price, lines 255-270
update_price_load(t, product_id, price) ==
    /\ price_req[t].pc = "idle"
    /\ price_req' = [price_req EXCEPT ![t] =
                       LoadedPrice("update_price", product_id, price)]
    /\ UNCHANGED <<products, price_history, outsideProducts>>

\* The price history after the flush of the session of request r: the
\* INSERT of the entry, when one was added.
FlushedHistory(r) ==
    IF r.changed
    THEN Append(price_history,
                NewPriceHistory(r.product_id, r.previous_price, r.price))
    ELSE price_history

\* The products after the flush of the session of request r: the UPDATE of
\* the price, when it was assigned.
FlushedProducts(r) ==
    IF r.changed
    THEN [products EXCEPT ![r.product_id].price = r.price]
    ELSE products

\* The flush of the session of request r updates a product that is no
\* longer stored.
StaleProduct(r) == r.changed /\ r.product_id \notin DOMAIN products

\* line 188: Product.query.get_or_404(product_id)
delete_product_load(t, product_id) ==
    /\ price_req[t].pc = "idle"
    /\ LET r == [IdlePriceRequest EXCEPT !.op = "delete_product",
                                         !.product_id = product_id]
       IN  price_req' = [price_req EXCEPT ![t] =
              IF product_id \notin DOMAIN products
              THEN PriceDone(r, 404)
              ELSE [r EXCEPT !.pc = "commit"]]
    /\ UNCHANGED <<products, price_history, outsideProducts>>

\* lines 190-193: the commit flushes the DELETE of the product; the
\* entries of its price history stay
delete_product_commit(t) ==
    /\ price_req[t].pc = "commit"
    /\ price_req[t].op = "delete_product"
    /\ products' = [i \in DOMAIN products \ {price_req[t].product_id} |->
                      products[i]]
    /\ price_req' = [price_req EXCEPT ![t] = PriceDone(@, 200)]
    /\ UNCHANGED <<price_history, outsideProducts>>

\* update_product, lines 172-181: COMMIT; when the product is no
\* longer stored its UPDATE matches no row, the transaction is rolled back
\* and 500 returned
update_product_commit(t) ==
    /\ price_req[t].pc = "commit"
    /\ price_req[t].op = "update_product"
    /\ price_req[t].changed => Len(price_history) < MaxHistory
    /\ IF StaleProduct(price_req[t])
       THEN /\ UNCHANGED <<products, price_history>>
            /\ price_req' = [price_req EXCEPT ![t] = PriceDone(@, 500)]
       ELSE /\ price_history' = FlushedHistory(price_req[t])
            /\ products' = FlushedProducts(price_req[t])
            /\ price_req' = [price_req EXCEPT ![t] = PriceDone(@, 200)]
    /\ UNCHANGED outsideProducts

\* update_price, lines 272-273: COMMIT; when the product is no
\* longer stored its UPDATE matches no row, the transaction is rolled back
\* and 500 returned
update_price_commit(t) ==
    /\ price_req[t].pc = "commit"
    /\ price_req[t].op = "update_price"
    /\ price_req[t].changed => Len(price_history) < MaxHistory
    /\ IF StaleProduct(price_req[t])
       THEN /\ UNCHANGED <<products, price_history>>
            /\ price_req' = [price_req EXCEPT ![t] = PriceDone(@, 500)]
       ELSE /\ price_history' = FlushedHistory(price_req[t])
            /\ products' = FlushedProducts(price_req[t])
            /\ price_req' = [price_req EXCEPT ![t].pc = "refresh"]
    /\ UNCHANGED outsideProducts

\* update_price, lines 274-281: product.id and product.price are read for
\* the response
update_price_refresh(t) ==
    /\ price_req[t].pc = "refresh"
    /\ price_req[t].op = "update_price"
    /\ price_req' = [price_req EXCEPT ![t] = Refreshed(@, 200)]
    /\ UNCHANGED <<products, price_history, outsideProducts>>

\* The response is sent and the session removed.
price_respond(t) ==
    /\ price_req[t].pc = "done"
    /\ price_req' = [price_req EXCEPT ![t] = IdlePriceRequest]
    /\ UNCHANGED <<products, price_history, outsideProducts>>

PriceStep(t) ==
    \/ create_product_refresh(t)
    \/ update_price_refresh(t)
    \/ delete_product_commit(t)
    \/ update_product_commit(t)
    \/ update_price_commit(t)
    \/ price_respond(t)

\* The requests of the products service, handled concurrently.
ProductNext ==
    \/ \E t \in Requests, id \in Products, price \in Prices :
          create_product_commit(t, id, price)
    \/ \E t \in Requests, id \in Products, price \in Prices :
          update_product_load(t, id, price)
    \/ \E t \in Requests, id \in Products, price \in Prices :
          update_price_load(t, id, price)
    \/ \E t \in Requests, id \in Products : delete_product_load(t, id)
    \/ \E t \in Requests : PriceStep(t)

ProductSpec == Init /\ [][ProductNext]_vars

\* The requests of the products service, handled one at a time.
SeqProductNext ==
    \/ /\ \A u \in Requests : price_req[u].pc = "idle"
       /\ \/ \E t \in Requests, id \in Products, price \in Prices :
                create_product_commit(t, id, price)
          \/ \E t \in Requests, id \in Products : delete_product_load(t, id)
          \/ \E t \in Requests, id \in Products, price \in Prices :
                \/ update_product_load(t, id, price)
                \/ update_price_load(t, id, price)
    \/ \E t \in Requests : PriceStep(t)

SeqProductSpec == Init /\ [][SeqProductNext]_vars

---------------------------------------------------------------------------
(* Properties *)

\* The approved reviews of a product, read off the table.
StoredApproved(p) ==
    { i \in DOMAIN reviews :
        reviews[i].product_id = p /\ reviews[i].status = "approved" }

\* A successfully completed approve request in slot t.
ApproveSucceeded(t) ==
    req[t].pc = "done" /\ req[t].op = "approve" /\ req[t].result = 200

\* C1: when two approve requests for distinct reviews of one product have
\* both completed successfully, in whatever interleaving, and both reviews
\* are approved, the stored summary of the product counts both.
C1_NoLostUpdate ==
    \A t, u \in Requests :
        ( /\ t # u
          /\ ApproveSucceeded(t) /\ ApproveSucceeded(u)
          /\ req[t].review_id # req[u].review_id
          /\ req[t].product_id = req[u].product_id
          /\ reviews[req[t].review_id].status = "approved"
          /\ reviews[req[u].review_id].status = "approved" )
        => /\ req[t].product_id \in DOMAIN summaries
           /\ summaries[req[t].product_id].total_reviews >= 2

\* C2: a review is stored as pending when created, and no step changes the
\* stored status of a review that is approved or rejected.
C2_StatusOneWay ==
    [][ /\ \A i \in DOMAIN reviews' \ DOMAIN reviews :
              reviews'[i].status = "pending"
        /\ \A i \in DOMAIN reviews :
              reviews[i].status \in {"approved", "rejected"}
                  => /\ i \in DOMAIN reviews'
                     /\ reviews'[i].status = reviews[i].status ]_vars

\* C3: in every state, a review stored as approved is counted by the
\* stored summary of its product: the summary exists and its total_reviews
\* is at least the number of approved reviews of the product.
C3_ApprovalAtomic ==
    \A i \in DOMAIN reviews :
        reviews[i].status = "approved"
        => LET p == reviews[i].product_id
           IN  /\ p \in DOMAIN summaries
               /\ summaries[p].total_reviews >= Cardinality(StoredApproved(p))

\* C4: with requests handled one at a time, when an approve request has
\* succeeded the stored summary of the product has total_reviews equal to
\* the number of its approved reviews and, for each rating r,
\* distribution[r] equal to the number of its approved reviews rated r.
C4_SummaryIsRecomputation ==
    \A t \in Requests :
        ApproveSucceeded(t)
        => LET p == req[t].product_id
           IN  /\ p \in DOMAIN summaries
               /\ summaries[p].total_reviews = Cardinality(StoredApproved(p))
               /\ \A r \in Ratings :
                     summaries[p].distribution[Str(Integer(r))] =
                        Cardinality({ i \in StoredApproved(p) :
                                         reviews[i].rating = Integer(r) })

\* C4 witness: an approve has succeeded for a product with two approved
\* reviews of different ratings and a third review that is not approved.
C4_Witness ==
    \E t \in Requests :
        /\ ApproveSucceeded(t)
        /\ \E i, j \in StoredApproved(req[t].product_id) :
              reviews[i].rating # reviews[j].rating
        /\ \E k \in DOMAIN reviews :
              /\ reviews[k].product_id = req[t].product_id
              /\ reviews[k].status # "approved"

\* C5: every stored summary has a distribution with exactly the five
\* rating keys, and its five counts add up to its total_reviews.
C5_DistributionSumsToTotal ==
    \A p \in DOMAIN summaries :
        /\ DOMAIN summaries[p].distribution = {"1", "2", "3", "4", "5"}
        /\ summaries[p].distribution["1"] + summaries[p].distribution["2"]
             + summaries[p].distribution["3"] + summaries[p].distribution["4"]
             + summaries[p].distribution["5"] = summaries[p].total_reviews

\* The sum of rating times count over a distribution.
WeightedSum(d) ==
    1 * d["1"] + 2 * d["2"] + 3 * d["3"] + 4 * d["4"] + 5 * d["5"]

AbsDiff(a, b) == IF a >= b THEN a - b ELSE b - a

\* C6: the average_rating a recomputation writes is, in hundredths, a
\* nearest hundredth to (sum of r * distribution[r]) / total_reviews when
\* total_reviews > 0, and 0 otherwise.
C6_AverageIsRoundedMean ==
    fn_calls >= 1
    => LET row == fn_summary[1]
           n   == row.total_reviews
       IN  IF n > 0
           THEN 2 * AbsDiff(row.average_rating * n,
                            100 * WeightedSum(row.distribution)) <= n
           ELSE row.average_rating = 0

\* C6 witness: a recomputation over three reviews whose mean is no whole
\* number of hundredths, so that rounding took place.
C6_Witness ==
    /\ fn_calls >= 1
    /\ fn_summary[1].total_reviews = 3
    /\ (100 * WeightedSum(fn_summary[1].distribution)) % 3 # 0

\* The positions of the reviews that carry attribute a.
Carrying(a) ==
    { i \in 1..Len(fn_reviews) : a \in DOMAIN fn_reviews[i].attributes }

RECURSIVE SumAttribute(_, _)
SumAttribute(a, positions) ==
    IF positions = {} THEN 0
    ELSE LET i == CHOOSE x \in positions : TRUE
         IN  fn_reviews[i].attributes[a].int
             + SumAttribute(a, positions \ {i})

\* Every review carrying attribute a carries it with an int score.
IntegerScores(a) ==
    \A i \in Carrying(a) : IsInteger(fn_reviews[i].attributes[a])

RECURSIVE ScoresAdded(_, _, _)
\* The scores of attribute a at the listed positions, added to `sum` one
\* after the other.
ScoresAdded(sum, a, listing) ==
    IF listing = <<>> THEN sum
    ELSE ScoresAdded(NumberAdd(sum, fn_reviews[Head(listing)].attributes[a]),
                     a, Tail(listing))

\* The mean of attribute a over the listed positions.
MeanOver(a, listing) ==
    NumberDivide(ScoresAdded(Integer(0), a, listing), Len(listing))

\* C7: after a recomputation the keys of attribute_averages are the
\* attribute names appearing in the approved reviews, and the value for a
\* name is the mean of that attribute over exactly the reviews carrying
\* it, taken in some order; for int scores it is the sum of the attribute
\* over the reviews carrying it divided by the number of those reviews.
C7_AttributeAverages ==
    fn_calls >= 1
    => LET avgs == fn_summary[1].attribute_averages
       IN  /\ DOMAIN avgs =
                UNION { DOMAIN fn_reviews[i].attributes : i \in 1..Len(fn_reviews) }
           /\ \A a \in DOMAIN avgs :
                 /\ \E listing \in Listings(Carrying(a)) :
                       avgs[a] = MeanOver(a, listing)
                 /\ IntegerScores(a)
                    => /\ avgs[a].den > 0
                       /\ avgs[a].num * Cardinality(Carrying(a)) =
                             avgs[a].den * SumAttribute(a, Carrying(a))

\* C7 witness: a recomputation over reviews of which one carries only
\* durability, one carries no attribute and one carries both names.
C7_Witness ==
    /\ fn_calls >= 1
    /\ \E i, j, k \in 1..Len(fn_reviews) :
          /\ DOMAIN fn_reviews[i].attributes = {"durability"}
          /\ DOMAIN fn_reviews[j].attributes = {}
          /\ DOMAIN fn_reviews[k].attributes = {"durability", "comfort"}
    /\ DOMAIN fn_summary[1].attribute_averages = {"durability", "comfort"}
    /\ IntegerScores("durability")
    /\ \E a \in {"durability"} : ~(fn_summary[1].attribute_averages[a].den = 1)

\* C8: once a recomputation has run over the approved reviews of a
\* product, running it again, with the reviews in any order, leaves
\* average_rating, total_reviews, distribution and attribute_averages as
\* they are.
C8_OrderIndependentIdempotent ==
    [][fn_calls >= 1 => fn_summary' = fn_summary]_vars

\* C9: a recomputation for a product without approved review leaves the
\* summary with average_rating 0, total_reviews 0, five zero counts and no
\* attribute average, whether a summary existed before or not.
C9_EmptyRecomputation ==
    (fn_calls >= 1 /\ fn_reviews = <<>>)
    => fn_summary =
         << [average_rating |-> 0, total_reviews |-> 0,
             distribution |-> [k \in {"1", "2", "3", "4", "5"} |-> 0],
             attribute_averages |-> <<>>] >>

\* C9 witness: such a recomputation where a summary counting a review
\* existed before.
C9_Witness ==
    /\ fn_calls = 1
    /\ fn_reviews = <<>>
    /\ fn_prior # <<>>
    /\ fn_prior[1].total_reviews > 0
    /\ fn_summary # fn_prior

\* A step of a reject request in slot t.
RejectStep(t) ==
    /\ req'[t] # req[t]
    /\ req[t].op = "reject" \/ req'[t].op = "reject"

\* C10: no step of a reject request creates or modifies a summary or
\* changes another review, and the commit of a rejection changes of its
\* review the status only, to rejected.
C10_RejectLeavesSummaries ==
    [][ \A t \in Requests :
          RejectStep(t)
          => /\ summaries' = summaries
             /\ DOMAIN reviews' = DOMAIN reviews
             /\ \A i \in DOMAIN reviews :
                   i # req[t].review_id => reviews'[i] = reviews[i]
             /\ (req[t].pc = "commit_status" /\ req'[t].result = 200)
                   => reviews'[req[t].review_id] =
                         [reviews[req[t].review_id] EXCEPT !.status = "rejected"]
      ]_vars

\* C10 witness: a reject request has succeeded, its review is rejected and
\* a summary of its product is stored.
C10_Witness ==
    \E t \in Requests :
        /\ req[t].pc = "done" /\ req[t].op = "reject" /\ req[t].result = 200
        /\ reviews[req[t].review_id].status = "rejected"
        /\ req[t].product_id \in DOMAIN summaries

\* A moderation request (approve or reject) begins in slot t.
ModerationBegins(t) ==
    /\ req[t].pc = "idle"
    /\ req'[t].op \in {"approve", "reject"}

\* C11: an approve or reject request for an id that is not stored ends with
\* 404, one for a review that is not pending ends with 400, and in both
\* cases no review and no summary is changed.
C11_RefusedModeration ==
    [][ \A t \in Requests :
          ModerationBegins(t)
          => LET id == req'[t].review_id
             IN  /\ id \notin DOMAIN reviews
                      => /\ req'[t].pc = "done" /\ req'[t].result = 404
                         /\ reviews' = reviews /\ summaries' = summaries
                 /\ (id \in DOMAIN reviews /\ reviews[id].status # "pending")
                      => /\ req'[t].pc = "done" /\ req'[t].result = 400
                         /\ reviews' = reviews /\ summaries' = summaries
      ]_vars

\* C11 witness: an approve request was refused with 400 for an approved
\* review whose product has a summary, and a reject request with 404.
C11_Witness ==
    \E t, u \in Requests :
        /\ req[t].pc = "done" /\ req[t].op = "approve" /\ req[t].result = 400
        /\ reviews[req[t].review_id].status = "approved"
        /\ reviews[req[t].review_id].product_id \in DOMAIN summaries
        /\ req[u].pc = "done" /\ req[u].op = "reject" /\ req[u].result = 404

\* C12: when an approve request that found its review pending has ended
\* with a storage failure, the review is pending again (requests handled
\* one at a time).
C12_FailureRollsBack ==
    \A t \in Requests :
        ( /\ req[t].pc = "done" /\ req[t].op = "approve"
          /\ req[t].result = 500 )
        => reviews[req[t].review_id].status = "pending"

\* The number is one of the integers 1..5.
RatingInRange(x) == IsInteger(x) /\ x.int \in Ratings

\* The body of a create request lacks a required field or carries a rating
\* outside 1..5.
RefusedBody(data) ==
    \/ \E f \in {"id", "product_id", "user_id", "title", "rating"} :
          f \notin DOMAIN data
    \/ ~RatingInRange(data.rating)

\* C13: a create request whose body lacks id, product_id, user_id, title
\* or rating, or whose rating is outside 1..5, ends with 400 and stores
\* nothing; and every stored review has a rating in 1..5.
C13_CreateValidated ==
    [][ /\ \A t \in Requests :
             (req[t].pc = "idle" /\ req'[t].op = "create"
                /\ RefusedBody(req'[t].data))
             => /\ req'[t].pc = "done" /\ req'[t].result = 400
                /\ reviews' = reviews
                /\ summaries' = summaries /\ responses' = responses
        /\ \A i \in DOMAIN reviews' : RatingInRange(reviews'[i].rating)
      ]_vars

\* The helpfulness request in slot t commits and returns 200 in this step.
HelpfulnessSucceeds(t) ==
    /\ req[t].pc = "commit_helpfulness"
    /\ req'[t].pc = "done" /\ req'[t].result = 200

\* C14: when a helpfulness request succeeds, each counter its body names is
\* stored with the value the body gives, whatever it was before, and a
\* counter the body does not name keeps its stored value.
C14_AbsoluteAssignment ==
    [][ \A t \in Requests :
          HelpfulnessSucceeds(t)
          => \A k \in {"likes", "dislikes"} :
                reviews'[req[t].review_id].helpfulness[k] =
                   IF k \in DOMAIN req[t].data
                   THEN req[t].data[k]
                   ELSE reviews[req[t].review_id].helpfulness[k]
      ]_vars

\* A helpfulness request has succeeded in slot t.
HelpfulnessSucceeded(t) ==
    req[t].pc = "done" /\ req[t].op = "helpfulness" /\ req[t].result = 200

\* The values the requests sent give to counter k.
WrittenValues(k) ==
    { data[k] : data \in { d \in HelpfulnessCatalogue : k \in DOMAIN d } }

\* C15: when two helpfulness requests for one review have both succeeded,
\* in whatever interleaving, every counter that one of them names holds a
\* value that a request has written to it; with a likes-only and a
\* dislikes-only request both counters hold written values.
C15_LastWriteWinsPerCounter ==
    \A t, u \in Requests :
        ( /\ t # u
          /\ HelpfulnessSucceeded(t) /\ HelpfulnessSucceeded(u)
          /\ req[t].review_id = req[u].review_id )
        => \A k \in DOMAIN req[t].data :
              reviews[req[t].review_id].helpfulness[k] \in WrittenValues(k)

\* C16: the stored helpfulness of every review is a pair of non-negative
\* integers, likes and dislikes; no request makes a counter negative.
C16_HelpfulnessNonNegative ==
    \A i \in DOMAIN reviews :
        /\ DOMAIN reviews[i].helpfulness = {"likes", "dislikes"}
        /\ reviews[i].helpfulness.likes \in Nat
        /\ reviews[i].helpfulness.dislikes \in Nat

\* C16 witness: a helpfulness request whose body gives a negative likes has
\* returned 200.
C16_Witness ==
    \E t \in Requests :
        /\ HelpfulnessSucceeded(t)
        /\ "likes" \in DOMAIN req[t].data
        /\ req[t].data.likes < 0
        /\ reviews[req[t].review_id].helpfulness.likes >= 0

\* A step of a response request in slot t.
ResponseStep(t) ==
    /\ req'[t] # req[t]
    /\ req[t].op = "response" \/ req'[t].op = "response"

\* C17: a response request for a review that is not stored ends with 404
\* and stores nothing; a response request for a stored review stores, in
\* the commit of line 296 and in no other step, exactly its response,
\* attached to its review, and leaves every other response as it is; when
\* it returns 201 its response is stored, attached to its review; no step
\* of a response request changes a review (status, helpfulness) or a
\* summary; and every stored response references a stored review.
C17_ResponseFrame ==
    [][ /\ \A t \in Requests :
             ResponseStep(t)
             => /\ reviews' = reviews
                /\ summaries' = summaries
                /\ (req[t].pc = "idle"
                      /\ req'[t].review_id \notin DOMAIN reviews)
                     => /\ req'[t].pc = "done" /\ req'[t].result = 404
                        /\ responses' = responses
                /\ IF req'[t].pc = "refresh_response"
                   THEN /\ req[t].pc = "insert_response"
                        /\ req[t].review_id \in DOMAIN reviews
                        /\ req[t].data.id \notin DOMAIN responses
                        /\ DOMAIN responses' =
                              DOMAIN responses \cup {req[t].data.id}
                        /\ responses'[req[t].data.id].review_id =
                              req[t].review_id
                        /\ \A i \in DOMAIN responses :
                              responses'[i] = responses[i]
                   ELSE responses' = responses
                /\ req'[t].result = 201
                     => /\ req[t].pc = "refresh_response"
                        /\ req[t].data.id \in DOMAIN responses'
                        /\ responses'[req[t].data.id].review_id =
                              req[t].review_id
        /\ \A i \in DOMAIN responses' :
              responses'[i].review_id \in DOMAIN reviews'
      ]_vars

\* C17 witness: a response was stored for an approved review whose product
\* has a summary, next to a response stored before it, and another
\* response request ended with 404.
C17_Witness ==
    \E t, u \in Requests :
        /\ req[t].pc = "done" /\ req[t].op = "response"
        /\ req[t].result = 201
        /\ req[t].data.id \in DOMAIN responses
        /\ responses[req[t].data.id].review_id = req[t].review_id
        /\ \E i \in DOMAIN responses : i # req[t].data.id
        /\ reviews[req[t].review_id].status = "approved"
        /\ reviews[req[t].review_id].product_id \in DOMAIN summaries
        /\ req[u].pc = "done" /\ req[u].op = "response"
        /\ req[u].result = 404

\* A step of an approve or reject request in slot t.
ModerationStep(t) ==
    /\ req'[t] # req[t]
    /\ \/ req[t].op \in {"approve", "reject"}
       \/ req'[t].op \in {"approve", "reject"}

\* The product of the review the request in slot t is about, before or
\* after the step; 0 when the review is not stored.
ModeratedProduct(t) ==
    LET id == IF req[t].pc = "idle" THEN req'[t].review_id
              ELSE req[t].review_id
    IN  IF id \in DOMAIN reviews THEN reviews[id].product_id ELSE 0

\* C18: a step of an approve or reject request for a review of product P
\* changes, creates or removes no summary of a product other than P,
\* changes no review of a product other than P, and the reviews it reads
\* for the summary of P are reviews of P.
C18_ProductsIndependent ==
    [][ \A t \in Requests :
          ModerationStep(t)
          => /\ \A q \in Products \ {ModeratedProduct(t)} :
                   /\ q \in DOMAIN summaries' <=> q \in DOMAIN summaries
                   /\ q \in DOMAIN summaries => summaries'[q] = summaries[q]
             /\ DOMAIN reviews' = DOMAIN reviews
             /\ \A i \in DOMAIN reviews :
                   reviews[i].product_id # ModeratedProduct(t)
                      => reviews'[i] = reviews[i]
             /\ \A j \in 1..Len(req'[t].revs) :
                   req'[t].revs[j].product_id = ModeratedProduct(t)
      ]_vars

\* C18 witness: approve requests for reviews of two products have
\* succeeded and each product has its summary, counting its own review.
C18_Witness ==
    \E t, u \in Requests :
        /\ ApproveSucceeded(t) /\ ApproveSucceeded(u)
        /\ req[t].product_id # req[u].product_id
        /\ req[t].product_id \in DOMAIN summaries
        /\ req[u].product_id \in DOMAIN summaries
        /\ summaries[req[t].product_id].total_reviews >= 1
        /\ summaries[req[u].product_id].total_reviews >= 1

\* C19: a summary is stored for a product only if a review of that product
\* is approved, and when an approve request for a review of the product
\* has succeeded a summary of the product is stored.
C19_SummaryLazilyCreated ==
    /\ \A p \in DOMAIN summaries : StoredApproved(p) # {}
    /\ \A t \in Requests :
          ApproveSucceeded(t) => req[t].product_id \in DOMAIN summaries

\* C20: no step removes a summary or lowers the total_reviews a summary
\* stores.
C20_TotalNeverDecreases ==
    [][ \A p \in DOMAIN summaries :
          /\ p \in DOMAIN summaries'
          /\ summaries'[p].total_reviews >= summaries[p].total_reviews
      ]_vars

\* A create request begins in slot t: the validation and the commit of
\* line 218.
CreateStep(t) ==
    req[t].pc = "idle" /\ req'[t].op = "create"

\* C21: a create request whose id is the id of a stored review fails and
\* leaves every stored review as it is, status included; a create request
\* that succeeds adds one row and changes no other.
C21_CreateNeverOverwrites ==
    [][ \A t \in Requests :
          CreateStep(t)
          => /\ \A i \in DOMAIN reviews :
                   i \in DOMAIN reviews' /\ reviews'[i] = reviews[i]
             /\ ("id" \in DOMAIN req'[t].data
                   /\ req'[t].data.id \in DOMAIN reviews)
                  => /\ req'[t].pc = "done"
                     /\ req'[t].result \in {400, 500}
                     /\ reviews' = reviews
      ]_vars

\* C21 witness: a create request for the id of an approved review, with a
\* body that differs from the stored row, has failed and the review is
\* approved still.
C21_Witness ==
    \E t \in Requests :
        /\ req[t].pc = "done" /\ req[t].op = "create"
        /\ req[t].result = 500
        /\ req[t].data.id \in DOMAIN reviews
        /\ reviews[req[t].data.id].status = "approved"
        /\ reviews[req[t].data.id].product_id # req[t].data.product_id

\* C22: every supplier has at most one primary contact.
C22_OnePrimaryContact ==
    \A s \in SupplierIds : Cardinality(PrimaryContacts(s)) <= 1

RECURSIVE ParentAfter(_, _)
\* The category reached from c by following n parent links, 0 once a
\* category without stored parent has been passed.
ParentAfter(c, n) ==
    IF c \notin DOMAIN categories THEN 0
    ELSE IF n = 0 THEN c
    ELSE ParentAfter(categories[c].parent_id, n - 1)

\* C23: from every stored category, following the parent links reaches a
\* category without parent: the parent relation has no cycle, so the walk
\* of get_category_attributes ends.
C23_ParentsAcyclic ==
    \A c \in DOMAIN categories :
        ParentAfter(c, Cardinality(DOMAIN categories)) = 0

\* The entries of the price history of product p, oldest first.
HistoryOf(p) == SelectSeq(price_history, LAMBDA e : e.product_id = p)

\* C24: the price history of every stored product is a chain without gap:
\* its first entry has previous_price 0, every later entry has as
\* previous_price the new_price of the entry before it, and the new_price
\* of the newest entry is the price of the product.
C24_PriceHistoryChain ==
    \A p \in DOMAIN products :
        LET h == HistoryOf(p)
        IN  /\ Len(h) >= 1
            /\ h[1].previous_price = 0
            /\ \A k \in 2..Len(h) : h[k].previous_price = h[k - 1].new_price
            /\ h[Len(h)].new_price = products[p].price

===========================================================================
